---- MODULE Spec2Model ----
(***************************************************************************)
(* Pseudo-IPD reconstruction (Guyot method) of the economic-modeling-agent *)
(* repository: the service-side IPDBuilder (python-service/km_extractor.py)*)
(* with its HTTP caller (python-service/main.py), and the agent-side       *)
(* IPDBuilderAgent (km_scripts/ipd_builder.py).                            *)
(*                                                                         *)
(* Numbers.  Times and survival values are fixed-point integers in units   *)
(* of 0.0001 (Scale units = 1 month, resp. survival 1.0).  Fractional      *)
(* patient counts are integers in units of 1/FracDen.  This arithmetic is   *)
(* exact; the rounding of Python's binary floats is modelled where the     *)
(* counts depend on it, in the service's interval counts and carry loop    *)
(* (EstimateSvcBinary), with MantissaBits significant bits instead of 53.  *)
(*                                                                         *)
(* Randomness.  numpy's global generator is a stream of draws fixed at     *)
(* process start (rngStream, arbitrary) and a shared position (rngPos)     *)
(* that every np.random.* call advances.  A draw is one of three levels:   *)
(* the low end of the distribution, its middle, its high end.              *)
(***************************************************************************)
EXTENDS Integers, Sequences, FiniteSets, TLC

VARIABLES
    rngStream,   \* numpy global RandomState: the draws it will deliver
    rngPos,      \* numpy global RandomState: position of the next draw
    callIn,      \* a direct call of one function: its arguments
    callOut,     \* its outcome
    callPc,      \* "call" before it, "done" after it
    svcReq,      \* POST /generate-ipd: the request body
    svcResp,     \* the response of the latest call
    svcPrev,     \* the response of the call before it
    svcFiles,    \* the Parquet files written, oldest first
    svcRuns,     \* calls made with this request body
    svcPc,       \* "request" while a call is pending, "responded" after
    execData,    \* run state: KM points and at-risk rows of each (endpoint, arm)
    execStatus,  \* run state: status on the blackboard
    execIpdFiles,\* run state: ipd_files
    execFiles,   \* run directory: Parquet files, in the order written
    execArtifacts, \* artifacts registered, in order
    execResults, \* execute's local ipd_results, in the order filled
    execTrace,   \* the stages execute ran, as <<pair, stage>>, in order
    execPc,      \* "start", "loop", then "returned" or "raised"
    concIn,      \* two concurrent pipelines: the arguments of each
    concDrawn,   \* the draws each has taken from the global generator
    concPc,      \* "synth", "noise" or "done", of each
    concOut      \* the outcome of each

rngVars == <<rngStream, rngPos>>
callVars == <<callIn, callOut, callPc>>
svcVars == <<svcReq, svcResp, svcPrev, svcFiles, svcRuns, svcPc>>
execVars == <<execData, execStatus, execIpdFiles, execFiles, execArtifacts,
              execResults, execTrace, execPc>>
concVars == <<concIn, concDrawn, concPc, concOut>>
vars == <<rngVars, callVars, svcVars, execVars, concVars>>

----------------------------------------------------------------------------
(* Units and bounds *)

Scale == 10 * 1000          \* units per month / per 1.0 of survival
Month == Scale
FracDen == 8 * 9 * 5 * 7     \* lcm(1..10): denominators of survival in tenths

MaxRecs == 3                \* records handed to the normalizer on its own
MaxPoints == 2              \* KM points, and at-risk rows, of one curve
MaxN == 3                   \* largest published at-risk count
MaxRuns == 2                \* calls with the same request body
StreamLen == 2              \* period of the modelled draw stream

DrawLevels == {0, 1, 2}     \* low end, middle, high end of a distribution

----------------------------------------------------------------------------
(* Arithmetic *)

Max(a, b) == IF a >= b THEN a ELSE b
Min(a, b) == IF a <= b THEN a ELSE b
Abs(a) == IF a >= 0 THEN a ELSE -a

\* Python round() of the rational p/q (q > 0): ties go to the even integer.
PyRound(p, q) ==
    LET f == p \div q
        r == p - f * q
    IN  IF 2 * r < q THEN f
        ELSE IF 2 * r > q THEN f + 1
        ELSE IF f % 2 = 0 THEN f ELSE f + 1

SetMin(S) == CHOOSE y \in S : \A z \in S : y <= z

RECURSIVE SumSeq(_)
SumSeq(s) == IF s = <<>> THEN 0 ELSE Head(s) + SumSeq(Tail(s))

----------------------------------------------------------------------------
(* numpy global random state *)

\* The draws a call can see: those the generator delivers from rngPos on.
WindowLen == 32 * (MaxN + 1)
Window(stream, from) ==
    [k \in 0..(WindowLen - 1) |-> stream[(from + k) % StreamLen]]

\* The k-th draw (k = 0, 1, ...) a call takes after it has taken pos draws.
DrawAt(draws, pos, k) == draws[pos + k]

\* Position of the generator after n more draws.
Advance(from, n) == (from + n) % StreamLen

NoiseSD == 100              \* np.random.normal(0, 0.01, ...): 0.01 month

\* np.random.normal(0, 0.01): three standard deviations below, the mean,
\* three standard deviations above.
NormalNoise(u) ==
    CASE u = 0 -> -(3 * NoiseSD)
      [] u = 1 -> 0
      [] OTHER -> 3 * NoiseSD

----------------------------------------------------------------------------
(* pandas DataFrame of patient records *)

\* pd.DataFrame(list of dicts): a frame built from an empty list has no
\* columns, so indexing it by "time" or "event" raises KeyError.
DataFrame(records) == [cols |-> records # <<>>, rows |-> records]

RECURSIVE SortRows(_, _)
SortRows(rows, times) ==
    IF times = {} THEN <<>>
    ELSE LET m == SetMin(times)
         IN  SelectSeq(rows, LAMBDA r : r.time = m) \o SortRows(rows, times \ {m})

\* DataFrame.sort_values('time').reset_index(drop=True) on the rows; rows of
\* equal time keep their order (numpy sorts short arrays by insertion).
SortByTime(rows) == SortRows(rows, {rows[i].time : i \in DOMAIN rows})

\* RandomState(42).permutation(n), n = 1..10, as 1-based row numbers.
Perm42Table ==
  <<
    <<1>>,
    <<2, 1>>,
    <<1, 2, 3>>,
    <<2, 4, 1, 3>>,
    <<2, 5, 3, 1, 4>>,
    <<1, 2, 6, 3, 5, 4>>,
    <<1, 2, 6, 3, 5, 4, 7>>,
    <<2, 6, 1, 8, 3, 5, 4, 7>>,
    <<8, 2, 6, 1, 9, 3, 5, 4, 7>>,
    <<9, 2, 6, 1, 8, 3, 10, 5, 4, 7>>
  >>

\* RandomState(42).randint(0, n, size=10), n = 1..10, as 1-based row numbers.
Randint42Table ==
  <<
    <<1, 1, 1, 1, 1, 1, 1, 1, 1, 1>>,
    <<1, 2, 1, 1, 1, 2, 1, 1, 1, 2>>,
    <<3, 1, 3, 3, 1, 1, 3, 2, 3, 3>>,
    <<3, 4, 1, 3, 3, 4, 1, 1, 3, 2>>,
    <<4, 5, 3, 5, 5, 2, 3, 3, 3, 5>>,
    <<4, 5, 3, 5, 5, 2, 3, 3, 3, 5>>,
    <<7, 4, 5, 7, 3, 5, 5, 7, 2, 3>>,
    <<7, 4, 5, 7, 3, 8, 5, 5, 7, 2>>,
    <<7, 4, 8, 5, 7, 3, 7, 8, 5, 4>>,
    <<7, 4, 8, 5, 7, 10, 3, 7, 8, 5>>
  >>

\* df.sample(n=k, random_state=42): k rows without replacement, in the
\* order of the seeded permutation.
Sample42(rows, k) ==
    IF k = 0 THEN <<>>
    ELSE [i \in 1..k |-> rows[Perm42Table[Len(rows)][i]]]

\* RandomState(42).randint(0, 99, size=1), as a 1-based row number.
Randint42Of99 == <<52>>

\* df.sample(n=k, replace=True, random_state=42): k rows with replacement.
SampleReplace42(rows, k) ==
    [i \in 1..k |->
        rows[(IF Len(rows) = 99 THEN Randint42Of99
              ELSE Randint42Table[Len(rows)])[i]]]

Events(rows) == SelectSeq(rows, LAMBDA r : r.event = 1)
Censored(rows) == SelectSeq(rows, LAMBDA r : r.event = 0)

----------------------------------------------------------------------------
(* PopulationNormalizer *)

MinTime == 10               \* np.maximum(time + noise, 0.001)

\* The removal branch shared by both normalizers: the rows kept, events
\* first, before the final sort.
RemoveExcess(rows, target_n) ==
    LET current_n == Len(rows)
        excess == current_n - target_n
        events_df == Events(rows)
        censored_df == Censored(rows)
        events_to_remove ==
            Min(PyRound(excess * Len(events_df), current_n), Len(events_df))
        censored_to_remove == Min(excess - events_to_remove, Len(censored_df))
        kept_events ==
            IF events_to_remove > 0 /\ Len(events_df) > 0
            THEN Sample42(events_df, Len(events_df) - events_to_remove)
            ELSE events_df
        kept_censored ==
            IF censored_to_remove > 0 /\ Len(censored_df) > 0
            THEN Sample42(censored_df, Len(censored_df) - censored_to_remove)
            ELSE censored_df
    IN  kept_events \o kept_censored

\* The duplication branch with the sampled rows keeping their ids.
Duplicates_keep_ids(rows, target_n, draws, pos) ==
    LET current_n == Len(rows)
        deficit == target_n - current_n
        picked == SampleReplace42(rows, deficit)
    IN  [i \in 1..deficit |->
            [picked[i] EXCEPT
                !.time = Max(picked[i].time + NormalNoise(DrawAt(draws, pos, i - 1)),
                             MinTime)]]

\* The duplication branch without the floor of 0.001 on the jittered time.
Duplicates_no_floor(rows, target_n, draws, pos) ==
    LET current_n == Len(rows)
        deficit == target_n - current_n
        picked == SampleReplace42(rows, deficit)
    IN  [i \in 1..deficit |->
            [picked[i] EXCEPT
                !.time = picked[i].time + NormalNoise(DrawAt(draws, pos, i - 1)),
                !.patient_id = current_n + i - 1]]

\* The duplication branch sampling with the global generator instead of
\* the fixed seed: the draw of a duplicate also picks the row it copies.
Duplicates_unseeded(rows, target_n, draws, pos) ==
    LET current_n == Len(rows)
        deficit == target_n - current_n
        picked == [i \in 1..deficit |->
                      rows[1 + (DrawAt(draws, pos, i - 1) * (current_n - 1)) \div 2]]
    IN  [i \in 1..deficit |->
            [picked[i] EXCEPT
                !.time = Max(picked[i].time + NormalNoise(DrawAt(draws, pos, i - 1)),
                             MinTime),
                !.patient_id = current_n + i - 1]]

\* The duplication branch shared by both normalizers: the rows appended.
\* Draw k of the global draws is the noise of the k-th duplicate.
Duplicates(rows, target_n, draws, pos) ==
    LET current_n == Len(rows)
        deficit == target_n - current_n
        picked == SampleReplace42(rows, deficit)
    IN  [i \in 1..deficit |->
            [picked[i] EXCEPT
                !.time = Max(picked[i].time + NormalNoise(DrawAt(draws, pos, i - 1)),
                             MinTime),
                !.patient_id = current_n + i - 1]]

\* IPDBuilder._normalize_population.  Outcome: raised (KeyError from the
\* final sort of a frame without columns), the frame returned, draws used.
normalize_population(ipd_df, target_n, draws, pos) ==
    LET current_n == Len(ipd_df.rows)
    IN  IF current_n = target_n
        THEN [raised |-> FALSE, df |-> ipd_df, used |-> 0]
        ELSE IF current_n > target_n
        THEN [raised |-> FALSE,
              df |-> [cols |-> TRUE,
                      rows |-> SortByTime(RemoveExcess(ipd_df.rows, target_n))],
              used |-> 0]
        ELSE IF current_n > 0
        THEN [raised |-> FALSE,
              df |-> [cols |-> TRUE,
                      rows |-> SortByTime(ipd_df.rows
                                  \o Duplicates(ipd_df.rows, target_n, draws, pos))],
              used |-> target_n - current_n]
        ELSE [raised |-> ~ipd_df.cols, df |-> ipd_df, used |-> 0]

\* IPDBuilderAgent._normalize_ipd_population.  It never raises: an empty
\* frame below target is returned as it is, with a logged warning.
normalize_ipd_population(ipd_df, target_n, draws, pos) ==
    LET current_n == Len(ipd_df.rows)
    IN  IF current_n = target_n
        THEN [raised |-> FALSE, df |-> ipd_df, used |-> 0]
        ELSE IF current_n > target_n
        THEN [raised |-> FALSE,
              df |-> [cols |-> TRUE,
                      rows |-> SortByTime(RemoveExcess(ipd_df.rows, target_n))],
              used |-> 0]
        ELSE IF current_n > 0
        THEN [raised |-> FALSE,
              df |-> [cols |-> TRUE,
                      rows |-> SortByTime(ipd_df.rows
                                  \o Duplicates(ipd_df.rows, target_n, draws, pos))],
              used |-> target_n - current_n]
        ELSE [raised |-> FALSE, df |-> ipd_df, used |-> 0]

----------------------------------------------------------------------------
(* Sequences of numbers and of points *)

RECURSIVE ConcatAll(_, _)
\* f[1] \o f[2] \o ... \o f[n]
ConcatAll(f, n) == IF n = 0 THEN <<>> ELSE ConcatAll(f, n - 1) \o f[n]

\* s[1] + ... + s[i-1]
PrefixSum(s, i) == SumSeq(SubSeq(s, 1, i - 1))

RECURSIVE SeqMin(_)
SeqMin(s) == IF Len(s) = 1 THEN s[1] ELSE Min(Head(s), SeqMin(Tail(s)))

RECURSIVE SeqMax(_)
SeqMax(s) == IF Len(s) = 1 THEN s[1] ELSE Max(Head(s), SeqMax(Tail(s)))

\* pandas Series.cummin()
CumMin(s) == [i \in 1..Len(s) |-> SeqMin(SubSeq(s, 1, i))]

Column(rows, field) == [i \in 1..Len(rows) |-> rows[i][field]]

----------------------------------------------------------------------------
(* IPDBuilder (service): at-risk alignment on the KM grid *)

DefaultInitialN == 100      \* initial_n = 100  # Default assumption

\* np.interp(x, xp, fp) as the rational <<numerator, denominator>>: fp at
\* the ends outside [xp[1], xp[n]], linear between the neighbours inside.
\* x equals no xp[i] here (exact matches are taken before).
Interp(x, xp, fp) ==
    LET n == Len(xp)
    IN  IF x < xp[1] THEN <<fp[1], 1>>
        ELSE IF x > xp[n] THEN <<fp[n], 1>>
        ELSE LET j == CHOOSE k \in 1..(n - 1) : xp[k] < x /\ x < xp[k + 1]
                 q == xp[j + 1] - xp[j]
             IN  <<fp[j] * q + (fp[j + 1] - fp[j]) * (x - xp[j]), q>>

\* The at-risk count attached to one KM time: the table's value on an exact
\* match (first matching row), else the rounded interpolation, never < 0.
EstimatedNRisk(km_time, atrisk_times, atrisk_nrisk) ==
    IF \E k \in DOMAIN atrisk_times : atrisk_times[k] = km_time
    THEN atrisk_nrisk[SetMin({k \in DOMAIN atrisk_times : atrisk_times[k] = km_time})]
    ELSE LET v == Interp(km_time, atrisk_times, atrisk_nrisk)
         IN  Max(0, PyRound(v[1], v[2]))

\* n_risk clipped to max(1, survival * initial_n * 1.2), the bound rounded.
ClipToSurvival(n_risk, survival, initial_n) ==
    LET bound10 == Max(10 * Scale, survival * initial_n * 12)
    IN  IF n_risk * 10 * Scale > bound10
        THEN PyRound(bound10, 10 * Scale)
        ELSE n_risk

\* IPDBuilder._align_atrisk_data: km_df (sorted by time) with an n_risk
\* column; atrisk_df sorted by time, possibly empty.
svc_align_atrisk_data(km_df, atrisk_df) ==
    IF atrisk_df = <<>>
    THEN LET max_survival == SeqMax(Column(km_df, "survival"))
         IN  [i \in 1..Len(km_df) |->
                [time |-> km_df[i].time, survival |-> km_df[i].survival,
                 n_risk |-> IF max_survival > 0
                            THEN PyRound(DefaultInitialN * km_df[i].survival,
                                         max_survival)
                            ELSE DefaultInitialN]]
    ELSE LET km == SortByTime(km_df)
             atrisk_times == Column(atrisk_df, "time")
             atrisk_nrisk == Column(atrisk_df, "atRisk")
             estimated == [i \in 1..Len(km) |->
                              EstimatedNRisk(km[i].time, atrisk_times, atrisk_nrisk)]
             mono == CumMin(estimated)
             initial_n == mono[1]
             clipped == [i \in 1..Len(km) |->
                            ClipToSurvival(mono[i], km[i].survival, initial_n)]
             final == CumMin(clipped)
         IN  [i \in 1..Len(km) |->
                [time |-> km[i].time, survival |-> km[i].survival,
                 n_risk |-> final[i]]]

----------------------------------------------------------------------------
(* IPDBuilder (service): reconstruct_ipd_guyot *)

PercentLimit == 15000       \* if max_survival > 1.5: percentages
MinStep == 10               \* survival_diff >= 0.001
MinFiltered == 3            \* if len(km_df_filtered) < 3: use original

\* Survival above 1.5 anywhere: the curve is in percent, divide by 100.
svc_to_fraction(sorted) ==
    LET pct == SeqMax(Column(sorted, "survival")) > PercentLimit
    IN  [i \in 1..Len(sorted) |->
            [sorted[i] EXCEPT !.survival = IF pct THEN @ \div 100 ELSE @]]

\* The rows of index i in keep, in index order.
RowsAt(km, keep) ==
    [i \in 1..Cardinality(keep) |->
        km[CHOOSE k \in keep : Cardinality({m \in keep : m < k}) = i - 1]]

\* The event-time filter: the first row and every row whose survival
\* differs from the row before by 0.001 or more; the unfiltered curve when
\* fewer than three rows are left.
svc_event_times(km) ==
    LET keep == {i \in 1..Len(km) :
                    i = 1 \/ Abs(km[i].survival - km[i - 1].survival) >= MinStep}
    IN  IF Cardinality(keep) < MinFiltered THEN km ELSE RowsAt(km, keep)

\* km_df after sorting, percentage conversion and the event-time filter.
svc_prepare_km(km_points) ==
    svc_event_times(svc_to_fraction(SortByTime(km_points)))

\* initial_n: the n_risk at t = 0 when the aligned grid has it, else backed
\* out of the earliest aligned point.
svc_initial_n(aligned) ==
    IF \E i \in DOMAIN aligned : aligned[i].time = 0
    THEN aligned[SetMin({i \in DOMAIN aligned : aligned[i].time = 0})].n_risk
    ELSE IF aligned[1].survival > 0
         THEN (aligned[1].n_risk * Scale) \div aligned[1].survival
         ELSE aligned[1].n_risk

\* The fractional events without the division by the interval's survival.
svc_d_no_division(aligned, i) ==
    IF aligned[i].survival > 0
    THEN (aligned[i].n_risk
          * (aligned[i].survival - aligned[i + 1].survival) * FracDen) \div Scale
    ELSE 0

\* Fractional events of interval i, in 1/FracDen patients (may be < 0).
svc_d(aligned, i) ==
    IF aligned[i].survival > 0
    THEN aligned[i].n_risk
         * (((aligned[i].survival - aligned[i + 1].survival) * FracDen)
            \div aligned[i].survival)
    ELSE 0

\* n_events_float and n_censored_float, the terminal point included.
svc_events_float(aligned) ==
    [i \in 1..Len(aligned) |->
        IF i < Len(aligned) THEN Max(0, svc_d(aligned, i)) ELSE 0]

svc_censored_float(aligned) ==
    [i \in 1..Len(aligned) |->
        IF i < Len(aligned)
        THEN Max(0, (aligned[i].n_risk - aligned[i + 1].n_risk) * FracDen
                    - svc_d(aligned, i))
        ELSE aligned[i].n_risk * FracDen]

RECURSIVE CarryLoop(_, _, _)
\* The rounding loop from step i on, acc being the accumulated fraction:
\* add the step's count, emit int() of the sum, keep the remainder.
CarryLoop(floats, i, acc) ==
    IF i > Len(floats) THEN <<>>
    ELSE <<(acc + floats[i]) \div FracDen>>
         \o CarryLoop(floats, i + 1, (acc + floats[i]) % FracDen)

\* Carry-forward rounding of the fractional counts (all >= 0).
CarryRound(floats) == CarryLoop(floats, 1, 0)

\* np.random.uniform(0, length): low end 0, middle, just below length.
Uniform0(u, length) ==
    CASE u = 0 -> 0
      [] u = 1 -> length \div 2
      [] OTHER -> Max(0, length - 1)

\* The patient records of the service: per interval the events (one draw
\* each), then the censored at the interval's start.
svc_patient_records(aligned, n_events, n_censored, arm_name, draws, pos) ==
    LET n == Len(aligned)
        evt == [i \in 1..n |-> IF i < n THEN n_events[i] ELSE 0]
        block(i) ==
            LET id0 == PrefixSum(evt, i) + PrefixSum(n_censored, i)
                k0 == PrefixSum(evt, i)
                t == aligned[i].time
            IN  [j \in 1..evt[i] |->
                    [patient_id |-> id0 + j - 1,
                     time |-> t + Uniform0(DrawAt(draws, pos, k0 + j - 1),
                                           aligned[i + 1].time - t),
                     event |-> 1, arm |-> arm_name]]
                \o [j \in 1..n_censored[i] |->
                    [patient_id |-> id0 + evt[i] + j - 1,
                     time |-> t, event |-> 0, arm |-> arm_name]]
    IN  [rows |-> ConcatAll([i \in 1..n |-> block(i)], n),
         used |-> SumSeq(evt)]

\* The summary with every record counted as an event.
Summary_all_events(rows, arm_name) ==
    [n_patients |-> Len(rows),
     n_events |-> Len(rows),
     n_censored |-> Len(Censored(rows)),
     arm |-> arm_name]

Summary(rows, arm_name) ==
    [n_patients |-> Len(rows),
     n_events |-> SumSeq(Column(rows, "event")),
     n_censored |-> Len(Censored(rows)),
     arm |-> arm_name]

NoSummary == [n_patients |-> 0, n_events |-> 0, n_censored |-> 0, arm |-> ""]

\* The return of reconstruct_ipd_guyot once the normalizer is through: the
\* to_dict and the summary raise KeyError on a frame without columns.
svc_outcome(aligned, initial_n, synth, norm, arm_name) ==
    LET base == [status |-> "raised", data |-> <<>>, summary |-> NoSummary,
                 stages |-> <<"align", "estimate", "synthesize", "normalize">>,
                 aligned |-> aligned, synth_n |-> Len(synth.rows),
                 target_n |-> initial_n, synth_used |-> synth.used,
                 used |-> synth.used + norm.used]
    IN  IF norm.raised \/ ~norm.df.cols
        THEN base
        ELSE [base EXCEPT !.status = "success", !.data = norm.df.rows,
                          !.summary = Summary(norm.df.rows, arm_name)]

\* The normalizer on the synthesized records, then the return.
svc_normalize(aligned, initial_n, synth, arm_name, draws, pos) ==
    svc_outcome(aligned, initial_n, synth,
                normalize_population(DataFrame(synth.rows), initial_n, draws,
                                     pos + synth.used),
                arm_name)

\* Interval counts and patient records of the aligned curve, then the rest.
svc_synthesize(aligned, arm_name, draws, pos) ==
    svc_normalize(aligned, svc_initial_n(aligned),
                  svc_patient_records(aligned,
                                      CarryRound(svc_events_float(aligned)),
                                      CarryRound(svc_censored_float(aligned)),
                                      arm_name, draws, pos),
                  arm_name, draws, pos)

\* The stages of IPDBuilder.reconstruct_ipd_guyot after its guard.
svc_reconstruct_body(km_points, atrisk_points, arm_name, draws, pos) ==
    svc_synthesize(svc_align_atrisk_data(svc_prepare_km(km_points),
                                         SortByTime(atrisk_points)),
                   arm_name, draws, pos)

\* The entry point with its guard answering success on an empty curve.
reconstruct_ipd_guyot_no_guard(km_points, atrisk_points, arm_name, draws, pos) ==
    IF km_points = <<>>
    THEN [status |-> "success", data |-> <<>>, summary |-> NoSummary,
          stages |-> <<"align", "estimate", "synthesize", "normalize">>,
          aligned |-> <<>>, synth_n |-> 0, target_n |-> 0,
          synth_used |-> 0, used |-> 0]
    ELSE svc_reconstruct_body(km_points, atrisk_points, arm_name, draws, pos)

\* IPDBuilder.reconstruct_ipd_guyot.  status: "success", "failed"
\* (success False returned) or "raised" (an exception leaves the method:
\* KeyError on a frame built from no records).  stages: those that ran.
reconstruct_ipd_guyot(km_points, atrisk_points, arm_name, draws, pos) ==
    IF km_points = <<>>
    THEN [status |-> "failed", data |-> <<>>, summary |-> NoSummary,
          stages |-> <<>>, aligned |-> <<>>, synth_n |-> 0, target_n |-> 0,
          synth_used |-> 0, used |-> 0]
    ELSE svc_reconstruct_body(km_points, atrisk_points, arm_name, draws, pos)

\* The dict generate_ipd_from_km returns for an outcome of the builder: an
\* exception becomes success False.
ipd_result(result) ==
    [success |-> result.status = "success",
     ipd |-> result.data, summary |-> result.summary,
     stages |-> result.stages, aligned |-> result.aligned,
     synth_n |-> result.synth_n, target_n |-> result.target_n,
     used |-> result.used]

generate_ipd_from_km(km_data, atrisk_data, arm, draws, pos) ==
    ipd_result(reconstruct_ipd_guyot(km_data, atrisk_data, arm, draws, pos))

----------------------------------------------------------------------------
(* ReconstructionValidator (IPDBuilderAgent): fidelity and integrity *)

FitScale == 100 * Scale     \* re-fitted survival in units of 0.000001

RECURSIVE KMProduct(_, _, _)
\* Kaplan-Meier product over the event times in `times`, ascending, from s.
KMProduct(rows, times, s) ==
    IF times = {} THEN s
    ELSE LET u == SetMin(times)
             n == Len(SelectSeq(rows, LAMBDA r : r.time >= u))
             d == Len(SelectSeq(rows, LAMBDA r : r.time = u /\ r.event = 1))
         IN  KMProduct(rows, times \ {u}, (s * (n - d)) \div n)

\* KaplanMeierFitter().fit(time, event).survival_function_at_times(t)
KMSurvivalAt(rows, t) ==
    KMProduct(rows,
              {rows[i].time : i \in {k \in DOMAIN rows :
                                        rows[k].event = 1 /\ rows[k].time <= t}},
              FitScale)

\* Sum over the grid of |original - re-fitted| survival, in 1/FitScale;
\* survival_mae is this sum divided by the number of grid points.
AbsErrorSum(rows, grid) ==
    SumSeq([i \in 1..Len(grid) |->
               Abs(grid[i].survival * 100 - KMSurvivalAt(rows, grid[i].time))])

WarnPFS == 1000             \* warning_threshold = 0.10
FailPFS == 3000             \* failure_threshold = 0.30
WarnOther == 500            \* warning_threshold = 0.05
FailOther == 1500           \* failure_threshold = 0.15

\* "PFS" in str(endpoint); endpoint names are sequences of letters.
ContainsPFS(name) ==
    \E i \in 1..(Len(name) - 2) : SubSeq(name, i, i + 2) = <<"P", "F", "S">>

warning_threshold(endpoint) == IF ContainsPFS(endpoint) THEN WarnPFS ELSE WarnOther
failure_threshold(endpoint) == IF ContainsPFS(endpoint) THEN FailPFS ELSE FailOther

\* The threshold decision of _validate_reconstruction on survival_mae =
\* errsum / (n * FitScale): "raise", "warn" or "ok".
\* The decision with a failure at the threshold itself (>= for >).
fidelity_outcome_at_threshold(endpoint, errsum, n) ==
    IF errsum >= failure_threshold(endpoint) * 100 * n THEN "raise"
    ELSE IF errsum > warning_threshold(endpoint) * 100 * n THEN "warn"
    ELSE "ok"

fidelity_outcome(endpoint, errsum, n) ==
    IF errsum > failure_threshold(endpoint) * 100 * n THEN "raise"
    ELSE IF errsum > warning_threshold(endpoint) * 100 * n THEN "warn"
    ELSE "ok"

\* IPDBuilderAgent._validate_reconstruction: KeyError on a frame without
\* columns, lifelines' ValueError on one without rows, else the threshold
\* decision.
validate_reconstruction(ipd_df, km_df, endpoint) ==
    IF ~ipd_df.cols \/ ipd_df.rows = <<>> THEN "raise"
    ELSE fidelity_outcome(endpoint, AbsErrorSum(ipd_df.rows, km_df), Len(km_df))

\* The integrity check without its check 3 (negative times).
validate_ipd_integrity_raises_no_time(ipd_df) ==
    \/ ipd_df.rows = <<>>
    \/ Len(ipd_df.rows)
         # SumSeq(Column(ipd_df.rows, "event")) + Len(Censored(ipd_df.rows))
    \/ \E i \in DOMAIN ipd_df.rows : ipd_df.rows[i].event \notin {0, 1}

\* IPDBuilderAgent._validate_ipd_integrity: TRUE when it raises.
validate_ipd_integrity_raises(ipd_df) ==
    \/ ipd_df.rows = <<>>
    \/ Len(ipd_df.rows)
         # SumSeq(Column(ipd_df.rows, "event")) + Len(Censored(ipd_df.rows))
    \/ \E i \in DOMAIN ipd_df.rows : ipd_df.rows[i].event \notin {0, 1}
    \/ \E i \in DOMAIN ipd_df.rows : ipd_df.rows[i].time < 0

----------------------------------------------------------------------------
(* IPDBuilderAgent: CurveNormalizer (_clean_km_data) *)

BigStep == 300              \* if step_size > 0.03

RECURSIVE SortNums(_)
SortNums(S) == IF S = <<>> THEN <<>>
               ELSE LET m == SeqMin(S)
                        k == SetMin({i \in DOMAIN S : S[i] = m})
                    IN  <<m>> \o SortNums(SubSeq(S, 1, k - 1) \o SubSeq(S, k + 1, Len(S)))

\* The PFS blend of the sorted survival values of one time: one value as
\* it is, two values blended toward the lower one, more values by their
\* 30th percentile (linear interpolation).
pfs_blend(values) ==
    LET n == Len(values)
        lo == (3 * (n - 1)) \div 10
        fr == (3 * (n - 1)) % 10
    IN  IF n = 1 THEN values[1]
        ELSE IF n = 2
        THEN IF values[2] - values[1] > BigStep
             THEN (85 * values[1] + 15 * values[2]) \div 100
             ELSE (65 * values[1] + 35 * values[2]) \div 100
        ELSE values[lo + 1] + (fr * (values[lo + 2] - values[lo + 1])) \div 10

\* advanced_pfs_survival
advanced_pfs_survival(group) == pfs_blend(SortNums(group))

RECURSIVE DistinctTimes(_, _)
\* The times of `points` in ascending order, each once.
DistinctTimes(points, times) ==
    IF times = {} THEN <<>>
    ELSE <<SetMin(times)>> \o DistinctTimes(points, times \ {SetMin(times)})

\* The cleaning without its running minimum.
clean_km_data_no_cummin(km_points, endpoint) ==
    IF km_points = <<>> THEN km_points
    ELSE
    LET df == SortByTime(km_points)
        times == DistinctTimes(df, {df[i].time : i \in DOMAIN df})
        group(t) == Column(SelectSeq(df, LAMBDA r : r.time = t), "survival")
        collapsed == [i \in 1..Len(times) |->
                         IF ContainsPFS(endpoint)
                         THEN advanced_pfs_survival(group(times[i]))
                         ELSE SeqMin(group(times[i]))]
    IN  [i \in 1..Len(times) |-> [time |-> times[i], survival |-> collapsed[i]]]

\* The cleaning with the PFS blend applied to every endpoint.
clean_km_data_blend_all(km_points, endpoint) ==
    IF km_points = <<>> THEN km_points
    ELSE
    LET df == SortByTime(km_points)
        times == DistinctTimes(df, {df[i].time : i \in DOMAIN df})
        group(t) == Column(SelectSeq(df, LAMBDA r : r.time = t), "survival")
        collapsed == [i \in 1..Len(times) |->
                         advanced_pfs_survival(group(times[i]))]
        mono == CumMin(collapsed)
    IN  [i \in 1..Len(times) |-> [time |-> times[i], survival |-> mono[i]]]

\* IPDBuilderAgent._clean_km_data: one point per time (minimum, or the PFS
\* blend), then a running minimum.  groupby leaves no duplicate time, so
\* the epsilon adjustment that follows it in the code never applies.
clean_km_data(km_points, endpoint) ==
    IF km_points = <<>> THEN km_points
    ELSE
    LET df == SortByTime(km_points)
        times == DistinctTimes(df, {df[i].time : i \in DOMAIN df})
        group(t) == Column(SelectSeq(df, LAMBDA r : r.time = t), "survival")
        collapsed == [i \in 1..Len(times) |->
                         IF ContainsPFS(endpoint)
                         THEN advanced_pfs_survival(group(times[i]))
                         ELSE SeqMin(group(times[i]))]
        mono == CumMin(collapsed)
    IN  [i \in 1..Len(times) |-> [time |-> times[i], survival |-> mono[i]]]

----------------------------------------------------------------------------
(* IPDBuilderAgent: RiskAligner on the at-risk grid *)

\* The lookup with linear interpolation between the neighbouring KM points
\* in place of the step function.
StepSurvival_linear(km, t) ==
    IF \E k \in DOMAIN km : km[k].time = t
    THEN km[SetMin({k \in DOMAIN km : km[k].time = t})].survival
    ELSE IF \E k \in DOMAIN km : km[k].time <= t
    THEN LET v == Interp(t, Column(km, "time"), Column(km, "survival"))
         IN  v[1] \div v[2]
    ELSE km[1].survival

\* Survival looked up at an at-risk time: the KM point at that time, else
\* the latest KM point before it, else the first KM point.
StepSurvival(km, t) ==
    IF \E k \in DOMAIN km : km[k].time = t
    THEN km[SetMin({k \in DOMAIN km : km[k].time = t})].survival
    ELSE IF \E k \in DOMAIN km : km[k].time <= t
    THEN km[CHOOSE k \in DOMAIN km :
                /\ km[k].time <= t
                /\ \A m \in DOMAIN km : km[m].time <= t => m <= k].survival
    ELSE km[1].survival

\* IPDBuilderAgent._align_atrisk_data
agent_align_atrisk_data(km_df, atrisk_df) ==
    IF atrisk_df = <<>>
    THEN [i \in 1..Len(km_df) |->
            [time |-> km_df[i].time, survival |-> km_df[i].survival,
             n_risk |-> PyRound(DefaultInitialN * km_df[i].survival, Scale)]]
    ELSE LET rows == SortByTime(atrisk_df)
             km == SortByTime(km_df)
             surv == CumMin([i \in 1..Len(rows) |-> StepSurvival(km, rows[i].time)])
             nrisk == CumMin(Column(rows, "atRisk"))
         IN  [i \in 1..Len(rows) |->
                [time |-> rows[i].time, survival |-> surv[i], n_risk |-> nrisk[i]]]

----------------------------------------------------------------------------
(* IPDBuilderAgent: IntervalEstimator and PatientSynthesizer *)

\* d of interval i < Len(aligned), as the rational <<numerator,
\* denominator>>: nr_curr * (1 - s_next / s_curr) on a survival drop, else 0.
agent_d(aligned, i) ==
    IF aligned[i].survival > 0 /\ aligned[i + 1].survival < aligned[i].survival
    THEN <<aligned[i].n_risk * (aligned[i].survival - aligned[i + 1].survival),
           aligned[i].survival>>
    ELSE <<0, 1>>

\* c = max(0, nr_curr - nr_next - d) of interval i < Len(aligned), likewise.
agent_c(aligned, i) ==
    IF aligned[i].survival > 0 /\ aligned[i + 1].survival < aligned[i].survival
    THEN <<Max(0, (aligned[i].n_risk - aligned[i + 1].n_risk) * aligned[i].survival
                  - aligned[i].n_risk
                    * (aligned[i].survival - aligned[i + 1].survival)),
           aligned[i].survival>>
    ELSE <<Max(0, aligned[i].n_risk - aligned[i + 1].n_risk), 1>>

\* round(max(0, d)) for interval i: each interval rounded on its own.
agent_n_events(aligned, i) ==
    IF i = Len(aligned) THEN 0
    ELSE PyRound(agent_d(aligned, i)[1], agent_d(aligned, i)[2])

\* round(max(0, nr_curr - nr_next - d)) for interval i.
agent_n_censored(aligned, i) ==
    IF i = Len(aligned) THEN aligned[i].n_risk
    ELSE PyRound(agent_c(aligned, i)[1], agent_c(aligned, i)[2])

EventEarliest == 10         \* max(t + 0.001, ...)
EventLatest == 1            \* min(event_time, times[i + 1] - 0.0001)

\* np.random.uniform(-0.01, 0.01) * length
JitterDraw(u, length) ==
    CASE u = 0 -> -(length \div 100)
      [] u = 1 -> 0
      [] OTHER -> Max(0, (length \div 100) - 1)

\* np.random.uniform(0, 0.3) * length
CensorDraw(u, length) ==
    CASE u = 0 -> 0
      [] u = 1 -> (15 * length) \div 100
      [] OTHER -> Max(0, (30 * length) \div 100 - 1)

\* Time of the j-th (j = 0..) of n_evt events in [t, t_next).
agent_event_time(t, t_next, j, n_evt, u) ==
    LET length == t_next - t
        base == (length * (80 * Max(1, n_evt) + 19 * j)) \div (100 * Max(1, n_evt))
        event_time == t + base + JitterDraw(u, length)
    IN  Max(t + EventEarliest, Min(event_time, t_next - EventLatest))

\* The patient records of the agent: per interval the events (one draw
\* each), then the censored (one draw each, none at the terminal point).
agent_patient_records(aligned, arm_name, draws, pos) ==
    LET n == Len(aligned)
        evt == [i \in 1..n |-> agent_n_events(aligned, i)]
        cens == [i \in 1..n |-> agent_n_censored(aligned, i)]
        drawsOf(i) == evt[i] + (IF i < n THEN cens[i] ELSE 0)
        taken == [i \in 1..n |-> drawsOf(i)]
        block(i) ==
            LET id0 == PrefixSum(evt, i) + PrefixSum(cens, i)
                k0 == PrefixSum(taken, i)
                t == aligned[i].time
            IN  [j \in 1..evt[i] |->
                    [patient_id |-> id0 + j - 1,
                     time |-> agent_event_time(t, aligned[i + 1].time, j - 1, evt[i],
                                               DrawAt(draws, pos, k0 + j - 1)),
                     event |-> 1, arm |-> arm_name]]
                \o [j \in 1..cens[i] |->
                    [patient_id |-> id0 + evt[i] + j - 1,
                     time |-> IF i < n
                              THEN t + CensorDraw(DrawAt(draws, pos, k0 + evt[i] + j - 1),
                                                  aligned[i + 1].time - t)
                              ELSE t,
                     event |-> 0, arm |-> arm_name]]
    IN  [rows |-> ConcatAll([i \in 1..n |-> block(i)], n),
         used |-> SumSeq(taken)]

\* initial_n of the agent: n_risk at t = 0 if the aligned grid has it.
agent_initial_n(aligned) ==
    IF \E i \in DOMAIN aligned : aligned[i].time = 0
    THEN aligned[SetMin({i \in DOMAIN aligned : aligned[i].time = 0})].n_risk
    ELSE IF aligned[1].survival > 0
         THEN (aligned[1].n_risk * Scale) \div aligned[1].survival
         ELSE aligned[1].n_risk

\* The checks with the fidelity failure logged instead of raised.
agent_validate_fidelity_logged(aligned, initial_n, synth, norm, fidelity) ==
    LET base == [status |-> "raised", df |-> norm.df, stages |-> <<>>,
                 aligned |-> aligned, synth_n |-> Len(synth.rows),
                 target_n |-> initial_n, fidelity |-> fidelity,
                 used |-> synth.used + norm.used]
        upto == <<"align", "estimate", "synthesize", "normalize", "fidelity">>
    IN  IF validate_ipd_integrity_raises(norm.df)
        THEN [base EXCEPT !.stages = Append(upto, "integrity")]
        ELSE [base EXCEPT !.status = "returned",
                          !.stages = Append(upto, "integrity")]

\* The two checks on the normalized frame, then the return.  status
\* "returned" or "raised"; stages: those that ran (the one that raised
\* included); df: the normalized frame.
agent_validate(aligned, initial_n, synth, norm, fidelity) ==
    LET base == [status |-> "raised", df |-> norm.df, stages |-> <<>>,
                 aligned |-> aligned, synth_n |-> Len(synth.rows),
                 target_n |-> initial_n, fidelity |-> fidelity,
                 used |-> synth.used + norm.used]
        upto == <<"align", "estimate", "synthesize", "normalize", "fidelity">>
    IN  IF fidelity = "raise"
        THEN [base EXCEPT !.stages = upto]
        ELSE IF validate_ipd_integrity_raises(norm.df)
        THEN [base EXCEPT !.stages = Append(upto, "integrity")]
        ELSE [base EXCEPT !.status = "returned",
                          !.stages = Append(upto, "integrity")]

\* The fidelity check of the normalized frame against the aligned curve.
agent_check(aligned, initial_n, synth, norm, endpoint) ==
    agent_validate(aligned, initial_n, synth, norm,
                   validate_reconstruction(norm.df, aligned, endpoint))

\* The normalizer on the synthesized records.
agent_normalize(aligned, initial_n, synth, endpoint, draws, pos) ==
    agent_check(aligned, initial_n, synth,
                normalize_ipd_population(DataFrame(synth.rows), initial_n, draws,
                                         pos + synth.used),
                endpoint)

\* Interval counts and patient records of the aligned curve.
agent_synthesize(aligned, endpoint, arm_name, draws, pos) ==
    agent_normalize(aligned, agent_initial_n(aligned),
                    agent_patient_records(aligned, arm_name, draws, pos),
                    endpoint, draws, pos)

\* The stages of IPDBuilderAgent._reconstruct_ipd_guyot after its guard.
agent_reconstruct_body(km_points, atrisk_points, endpoint, arm_name, draws, pos) ==
    IF atrisk_points = <<>>
    THEN \* pd.DataFrame([]).sort_values("time_months"): KeyError
         [status |-> "raised", df |-> DataFrame(<<>>), stages |-> <<>>,
          aligned |-> <<>>, synth_n |-> 0, target_n |-> 0, fidelity |-> "none",
          used |-> 0]
    ELSE agent_synthesize(agent_align_atrisk_data(SortByTime(km_points),
                                                  SortByTime(atrisk_points)),
                          endpoint, arm_name, draws, pos)

\* IPDBuilderAgent._reconstruct_ipd_guyot
agent_reconstruct_ipd_guyot(km_points, atrisk_points, endpoint, arm_name, draws, pos) ==
    IF km_points = <<>>
    THEN [status |-> "raised", df |-> DataFrame(<<>>), stages |-> <<>>,
          aligned |-> <<>>, synth_n |-> 0, target_n |-> 0, fidelity |-> "none",
          used |-> 0]
    ELSE agent_reconstruct_body(km_points, atrisk_points, endpoint, arm_name,
                                draws, pos)

----------------------------------------------------------------------------
(* POST /generate-ipd *)

\* The response to a result of generate_ipd_from_km: the status code, the
\* Parquet file written (if any) and the counts reported.  The file is
\* written before the summary defaults index the frame, so a KeyError there
\* leaves the file behind.
ipd_response(result) ==
    IF ~result.success
    THEN [code |-> 500, file |-> <<>>, written |-> FALSE,
          summary |-> NoSummary, result |-> result]
    ELSE [code |-> IF result.ipd = <<>> THEN 500 ELSE 200,
          file |-> result.ipd, written |-> TRUE,
          summary |-> result.summary, result |-> result]

\* generate_ipd
generate_ipd(request, draws, pos) ==
    ipd_response(generate_ipd_from_km(request.km_data, request.atrisk_data,
                                      request.arm, draws, pos))

----------------------------------------------------------------------------
(* Inputs *)

OS == <<"O", "S">>
PFS == <<"P", "F", "S">>

RecTimes == {0, 6 * Month}
KMTimes == {0, 6 * Month}
SurvValues == {Scale \div 2, Scale}
ARTimes == {0, 6 * Month}

\* Record lists as the synthesizer builds them: ids 0..n-1 in list order.
RecordLists ==
    UNION {
        { [i \in 1..n |-> [patient_id |-> i - 1, time |-> f[i][1],
                           event |-> f[i][2], arm |-> "A"]]
          : f \in [1..n -> RecTimes \X {0, 1}] }
        : n \in 0..MaxRecs }

Targets == 0..(MaxRecs + 1)
Streams == [0..(StreamLen - 1) -> DrawLevels]

SeqsUpTo(S, n) == UNION {[1..k -> S] : k \in 0..n}

\* Curves arrive in time order (the entry points sort first anyway).  A
\* digitized curve may repeat a time; a published at-risk table does not.
KMInputs ==
    {s \in SeqsUpTo([time : KMTimes, survival : SurvValues], MaxPoints) :
        \A i \in 1..(Len(s) - 1) : s[i].time <= s[i + 1].time}
ARInputs ==
    {s \in SeqsUpTo([time : ARTimes, atRisk : 0..MaxN], MaxPoints) :
        /\ s # <<>>
        /\ \A i \in 1..(Len(s) - 1) : s[i].time < s[i + 1].time}

----------------------------------------------------------------------------
(* Initial states *)

InitRng ==
    /\ rngStream \in Streams
    /\ rngPos = 0

\* A process that draws nothing: the generator plays no part.
InitRngIdle ==
    /\ rngStream = [k \in 0..(StreamLen - 1) |-> 1]
    /\ rngPos = 0

NoCall == [who |-> "none"]

InitCallIdle ==
    /\ callIn = NoCall
    /\ callOut = NoCall
    /\ callPc = "idle"

NoResponse ==
    [code |-> 0, file |-> <<>>, written |-> FALSE, summary |-> NoSummary,
     result |-> [success |-> FALSE, ipd |-> <<>>, summary |-> NoSummary,
                 stages |-> <<>>, aligned |-> <<>>, synth_n |-> 0,
                 target_n |-> 0, used |-> 0]]

InitSvcIdle ==
    /\ svcReq = [km_data |-> <<>>, atrisk_data |-> <<>>,
                 endpoint_type |-> OS, arm |-> "A"]
    /\ svcResp = NoResponse
    /\ svcPrev = NoResponse
    /\ svcFiles = <<>>
    /\ svcRuns = 0
    /\ svcPc = "idle"

----------------------------------------------------------------------------
(* The population normalizers, called directly *)

InitNorm ==
    /\ callIn \in [df : {DataFrame(l) : l \in RecordLists}, target_n : Targets]
    /\ callOut = NoCall
    /\ callPc = "call"

\* IPDBuilder._normalize_population(ipd_df, target_n)
NormSvc ==
    /\ callPc = "call"
    /\ \E r \in {normalize_population(callIn.df, callIn.target_n,
                                      Window(rngStream, rngPos), 0)} :
           /\ callOut' = [who |-> "svc", raised |-> r.raised, df |-> r.df]
           /\ rngPos' = Advance(rngPos, r.used)
    /\ callPc' = "done"
    /\ UNCHANGED <<rngStream, callIn, svcVars, execVars, concVars>>

\* IPDBuilderAgent._normalize_ipd_population(ipd_df, target_n, arm_name)
NormAgent ==
    /\ callPc = "call"
    /\ \E r \in {normalize_ipd_population(callIn.df, callIn.target_n,
                                          Window(rngStream, rngPos), 0)} :
           /\ callOut' = [who |-> "agent", raised |-> r.raised, df |-> r.df]
           /\ rngPos' = Advance(rngPos, r.used)
    /\ callPc' = "done"
    /\ UNCHANGED <<rngStream, callIn, svcVars, execVars, concVars>>

----------------------------------------------------------------------------
(* Both reconstruction entry points, called directly on the same input *)

\* A published curve with its at-risk table: 100 patients, survival 1.0,
\* 0.8, 0.6 and 100, 70, 40 at risk at 0, 6 and 12 months.
PublishedKM ==
    <<[time |-> 0, survival |-> Scale],
      [time |-> 6 * Month, survival |-> (8 * Scale) \div 10],
      [time |-> 12 * Month, survival |-> (6 * Scale) \div 10]>>
PublishedAtRisk ==
    <<[time |-> 0, atRisk |-> 100],
      [time |-> 6 * Month, atRisk |-> 70],
      [time |-> 12 * Month, atRisk |-> 40]>>

InitRecon ==
    /\ callIn \in [km_points : KMInputs, atrisk_points : ARInputs \cup {<<>>},
                   endpoint : {OS, PFS}, arm : {"A"}]
                  \cup [km_points : {PublishedKM}, atrisk_points : {PublishedAtRisk},
                        endpoint : {OS, PFS}, arm : {"A"}]
    /\ callOut = NoCall
    /\ callPc = "call"

\* IPDBuilder.reconstruct_ipd_guyot(km_points, atrisk_points, arm).  The
\* service is called with an at-risk table here: its no-table fallback
\* synthesizes a cohort of DefaultInitialN patients, beyond these bounds.
ReconSvc ==
    /\ callPc = "call"
    /\ callIn.atrisk_points # <<>>
    /\ \E r \in {reconstruct_ipd_guyot(callIn.km_points, callIn.atrisk_points,
                                       callIn.arm, Window(rngStream, rngPos), 0)} :
           /\ callOut' = [who |-> "svc", status |-> r.status, rows |-> r.data,
                          stages |-> r.stages, aligned |-> r.aligned,
                          synth_n |-> r.synth_n, target_n |-> r.target_n,
                          n_patients |-> r.summary.n_patients,
                          n_events |-> r.summary.n_events,
                          n_censored |-> r.summary.n_censored]
           /\ rngPos' = Advance(rngPos, r.used)
    /\ callPc' = "done"
    /\ UNCHANGED <<rngStream, callIn, svcVars, execVars, concVars>>

\* The counts _validate_ipd_integrity and execute take of a frame.
FrameCounts(rows) ==
    [n_patients |-> Len(rows),
     n_events |-> SumSeq(Column(rows, "event")),
     n_censored |-> Len(Censored(rows))]

\* The frame a caller of the agent's entry point holds: none if it raised.
ReturnedRows(r) == IF r.status = "returned" THEN r.df.rows ELSE <<>>

\* IPDBuilderAgent._reconstruct_ipd_guyot(km_points, atrisk_points)
ReconAgent ==
    /\ callPc = "call"
    /\ \E r \in {agent_reconstruct_ipd_guyot(callIn.km_points, callIn.atrisk_points,
                                             callIn.endpoint, callIn.arm,
                                             Window(rngStream, rngPos), 0)} :
           /\ callOut' = [who |-> "agent",
                          status |-> IF r.status = "returned" THEN "success"
                                     ELSE "raised",
                          rows |-> ReturnedRows(r),
                          stages |-> r.stages, aligned |-> r.aligned,
                          synth_n |-> r.synth_n, target_n |-> r.target_n,
                          n_patients |-> FrameCounts(ReturnedRows(r)).n_patients,
                          n_events |-> FrameCounts(ReturnedRows(r)).n_events,
                          n_censored |-> FrameCounts(ReturnedRows(r)).n_censored]
           /\ rngPos' = Advance(rngPos, r.used)
    /\ callPc' = "done"
    /\ UNCHANGED <<rngStream, callIn, svcVars, execVars, concVars>>

----------------------------------------------------------------------------
(* The fidelity check, called directly *)

EndpointNames == {OS, PFS, <<"D", "F", "S">>, <<"P", "F", "S", "2">>}

\* MAE values (in 0.0001) on, just below and just above each threshold.
MAELevels ==
    {m \in {t + e : t \in {0, WarnOther, WarnPFS, FailOther, FailPFS},
                    e \in {-1, 0, 1}} : m >= 0}

\* One grid point: the re-fitted curve is compared with Scale - m there.
FidelityGrids ==
    {<<[time |-> 0, survival |-> Scale - m, n_risk |-> 1]>> : m \in MAELevels}

InitFidelity ==
    /\ callIn \in [ipd_df : {DataFrame(l) : l \in RecordLists},
                   km_df : FidelityGrids, endpoint : EndpointNames]
    /\ callOut = NoCall
    /\ callPc = "call"

\* IPDBuilderAgent._validate_reconstruction(ipd_df, km_df)
ValidateReconstruction ==
    /\ callPc = "call"
    /\ callOut' = [who |-> "agent",
                   outcome |-> validate_reconstruction(callIn.ipd_df, callIn.km_df,
                                                       callIn.endpoint)]
    /\ callPc' = "done"
    /\ UNCHANGED <<rngVars, callIn, svcVars, execVars, concVars>>

----------------------------------------------------------------------------
(* The integrity check, called directly *)

\* Frames as any caller may build them: event values and times unchecked.
AnyFrames ==
    UNION {
        { DataFrame([i \in 1..n |-> [patient_id |-> i - 1, time |-> f[i][1],
                                     event |-> f[i][2], arm |-> "A"]])
          : f \in [1..n -> {-Month, 0, 6 * Month} \X {-1, 0, 1, 2}] }
        : n \in 0..MaxRecs }

InitIntegrity ==
    /\ callIn \in [ipd_df : AnyFrames]
    /\ callOut = NoCall
    /\ callPc = "call"

\* IPDBuilderAgent._validate_ipd_integrity(ipd_df, arm_name)
ValidateIntegrity ==
    /\ callPc = "call"
    /\ callOut' = [who |-> "agent",
                   raised |-> validate_ipd_integrity_raises(callIn.ipd_df),
                   ipd_df |-> callIn.ipd_df]
    /\ callPc' = "done"
    /\ UNCHANGED <<rngVars, callIn, svcVars, execVars, concVars>>

----------------------------------------------------------------------------
(* The service: one request body, posted up to MaxRuns times *)

InitSvc ==
    /\ svcReq \in [km_data : KMInputs, atrisk_data : ARInputs,
                   endpoint_type : {OS}, arm : {"A"}]
    /\ svcResp = NoResponse
    /\ svcPrev = NoResponse
    /\ svcFiles = <<>>
    /\ svcRuns = 1
    /\ svcPc = "request"

\* The whole handler of POST /generate-ipd.
SvcGenerate ==
    /\ svcPc = "request"
    /\ \E resp \in {generate_ipd(svcReq, Window(rngStream, rngPos), 0)} :
           /\ svcResp' = resp
           /\ svcFiles' = IF resp.written THEN Append(svcFiles, resp.file)
                          ELSE svcFiles
           /\ rngPos' = Advance(rngPos, resp.result.used)
    /\ svcPrev' = svcResp
    /\ svcPc' = "responded"
    /\ UNCHANGED <<rngStream, svcReq, svcRuns, callVars, execVars, concVars>>

\* The client posts the same body again.
SvcResubmit ==
    /\ svcPc = "responded"
    /\ svcRuns < MaxRuns
    /\ svcRuns' = svcRuns + 1
    /\ svcPc' = "request"
    /\ UNCHANGED <<rngVars, svcReq, svcResp, svcPrev, svcFiles, callVars,
                   execVars, concVars>>

----------------------------------------------------------------------------
(* IPDBuilderAgent.execute over one run *)

\* The (endpoint, arm) pairs of the run's KM data.
PairKeys == {<<OS, "A">>, <<OS, "B">>, <<PFS, "A">>}

\* The curves of one pair: a KM curve from (0, 1.0), with no at-risk table
\* or with one of two rows that starts from MaxN patients.
PairCurves ==
    [km_points : {s \in KMInputs : /\ Len(s) = 2
                                   /\ s[1] = [time |-> 0, survival |-> Scale]
                                   /\ s[2].survival < Scale},
     atrisk_points : {<<>>} \cup
                     {s \in ARInputs : /\ Len(s) = 2
                                       /\ s[1].atRisk = MaxN
                                       /\ s[2].atRisk \in {1, MaxN}}]

InitExecIdle ==
    /\ execData = <<>>
    /\ execStatus = "none"
    /\ execIpdFiles = <<>>
    /\ execFiles = <<>>
    /\ execArtifacts = <<>>
    /\ execResults = <<>>
    /\ execTrace = <<>>
    /\ execPc = "idle"

InitExec ==
    /\ execData \in [PairKeys -> PairCurves]
    /\ execStatus = "KM_EXTRACTION"
    /\ execIpdFiles = <<>>
    /\ execFiles = <<>>
    /\ execArtifacts = <<>>
    /\ execResults = <<>>
    /\ execTrace = <<>>
    /\ execPc = "start"

\* The pairs whose loop body has begun: each opens with the clean stage.
Begun == {execTrace[i][1] : i \in DOMAIN execTrace}

\* for endpoint in set(...): for arm in arms: any endpoint order, any arm
\* order, the arms of one endpoint together.
MayComeNext(key) ==
    /\ key \in PairKeys \ Begun
    /\ IF execTrace = <<>> THEN TRUE
       ELSE \/ key[1] = execTrace[Len(execTrace)][1][1]
            \/ \A k \in PairKeys \ Begun : k[1] # execTrace[Len(execTrace)][1][1]

\* What one pass of the loop body leaves behind, given the outcome r of
\* the reconstruction: the frame (if it returned) and the stages run.
pair_outcome(key, r) ==
    LET ok == r.status = "returned"
        ran == <<"clean">> \o r.stages \o
               (IF ok THEN <<"write", "artifact">> ELSE <<>>)
    IN  [returned |-> ok,
         rows |-> ReturnedRows(r),
         trace |-> [i \in 1..Len(ran) |-> <<key, ran[i]>>],
         used |-> r.used]

\* The reconstruction of one pair: _clean_km_data, _reconstruct_ipd_guyot.
pair_reconstruction(key, curves, draws) ==
    agent_reconstruct_ipd_guyot(clean_km_data(curves.km_points, key[1]),
                                curves.atrisk_points, key[1], key[2], draws, 0)

\* get_state, set_status(IPD_RECONSTRUCTION)
ExecStart ==
    /\ execPc = "start"
    /\ execStatus' = "IPD_RECONSTRUCTION"
    /\ execPc' = "loop"
    /\ UNCHANGED <<rngVars, callVars, svcVars, concVars, execData, execIpdFiles,
                   execFiles, execArtifacts, execResults, execTrace>>

\* The loop body with update_state(ipd_files=...) moved into the loop.
ExecPair_updates_state(key) ==
    /\ execPc = "loop"
    /\ MayComeNext(key)
    /\ \E out \in {pair_outcome(key, pair_reconstruction(key, execData[key],
                                                           Window(rngStream, rngPos)))} :
           /\ execTrace' = execTrace \o out.trace
           /\ rngPos' = Advance(rngPos, out.used)
           /\ IF out.returned
              THEN /\ execFiles' = Append(execFiles, [key |-> key, rows |-> out.rows])
                   /\ execResults' =
                          Append(execResults,
                                 [key |-> key,
                                  n_patients |-> Len(out.rows),
                                  events |-> SumSeq(Column(out.rows, "event"))])
                   /\ execIpdFiles' = execResults'
                   /\ execArtifacts' = Append(execArtifacts, key)
                   /\ execPc' = "loop"
              ELSE /\ execPc' = "raised"
                   /\ UNCHANGED <<execFiles, execResults, execArtifacts, execIpdFiles>>
    /\ UNCHANGED <<rngStream, callVars, svcVars, concVars, execData, execStatus>>

\* The loop body for the next pair.  An exception of the reconstruction
\* leaves execute: nothing catches it.
ExecPair(key) ==
    /\ execPc = "loop"
    /\ MayComeNext(key)
    /\ \E out \in {pair_outcome(key, pair_reconstruction(key, execData[key],
                                                           Window(rngStream, rngPos)))} :
           /\ execTrace' = execTrace \o out.trace
           /\ rngPos' = Advance(rngPos, out.used)
           /\ IF out.returned
              THEN /\ execFiles' = Append(execFiles, [key |-> key, rows |-> out.rows])
                   /\ execResults' =
                          Append(execResults,
                                 [key |-> key,
                                  n_patients |-> Len(out.rows),
                                  events |-> SumSeq(Column(out.rows, "event"))])
                   /\ execArtifacts' = Append(execArtifacts, key)
                   /\ execPc' = "loop"
              ELSE /\ execPc' = "raised"
                   /\ UNCHANGED <<execFiles, execResults, execArtifacts>>
    /\ UNCHANGED <<rngStream, callVars, svcVars, concVars, execData, execStatus,
                   execIpdFiles>>

\* update_state(ipd_files = ipd_results); return
ExecFinish ==
    /\ execPc = "loop"
    /\ PairKeys \subseteq Begun
    /\ execIpdFiles' = execResults
    /\ execPc' = "returned"
    /\ UNCHANGED <<rngVars, callVars, svcVars, concVars, execData, execStatus,
                   execFiles, execArtifacts, execResults, execTrace>>

----------------------------------------------------------------------------
(* Two reconstructions of IPDBuilder on concurrent worker threads *)

Pipelines == {1, 2}

ConcCurves ==
    [km_points : {s \in KMInputs : /\ Len(s) = 2
                                   /\ s[1] = [time |-> 0, survival |-> Scale]
                                   /\ s[2].time > 0},
     atrisk_points : {s \in ARInputs : /\ Len(s) = 2
                                       /\ s[1].atRisk = MaxN}]

InitConcIdle ==
    /\ concIn = <<>>
    /\ concDrawn = <<>>
    /\ concPc = <<>>
    /\ concOut = <<>>

InitConc ==
    /\ concIn \in [Pipelines -> ConcCurves]
    /\ concDrawn = [p \in Pipelines |-> <<>>]
    /\ concPc = [p \in Pipelines |-> "synth"]
    /\ concOut = [p \in Pipelines |-> NoCall]

\* The draws a pipeline has taken, as the window its code reads them from.
Taken(drawn) ==
    [k \in 0..(WindowLen - 1) |-> IF k < Len(drawn) THEN drawn[k + 1] ELSE 1]

\* reconstruct_ipd_guyot of pipeline p on the draws it saw.
ConcResult(p, draws) ==
    reconstruct_ipd_guyot(concIn[p].km_points, concIn[p].atrisk_points,
                          IF p = 1 THEN "A" ELSE "B", draws, 0)

\* The same call with the generator to itself, from its initial state.
AloneResult(p) == ConcResult(p, Window(rngStream, 0))

\* The calls of np.random.uniform the synthesizer of pipeline p makes, and
\* the size of the normalizer's noise vector: both follow from the counts.
UniformDraws(p) == ConcResult(p, Window(rngStream, 0)).synth_used
NoiseDraws(p) ==
    LET r == ConcResult(p, Window(rngStream, 0)) IN r.used - r.synth_used

\* One np.random.uniform(0, interval_length) of the synthesizer's loop.
ConcDraw(p) ==
    /\ concPc[p] = "synth"
    /\ Len(concDrawn[p]) < UniformDraws(p)
    /\ concDrawn' = [concDrawn EXCEPT ![p] = Append(@, rngStream[rngPos])]
    /\ rngPos' = Advance(rngPos, 1)
    /\ UNCHANGED <<rngStream, callVars, svcVars, execVars, concIn, concPc, concOut>>

\* The synthesizer's loop ends; the normalizer is entered.
ConcSynthesized(p) ==
    /\ concPc[p] = "synth"
    /\ Len(concDrawn[p]) = UniformDraws(p)
    /\ concPc' = [concPc EXCEPT ![p] = "noise"]
    /\ UNCHANGED <<rngVars, callVars, svcVars, execVars, concIn, concDrawn, concOut>>

\* The normalizer: its one np.random.normal(0, 0.01, n) takes n draws in a
\* single call; the method returns.
ConcNormalize(p) ==
    /\ concPc[p] = "noise"
    /\ \E n \in {NoiseDraws(p)} :
       \E noise \in {[k \in 1..n |-> rngStream[(rngPos + k - 1) % StreamLen]]} :
       \E r \in {ConcResult(p, Taken(concDrawn[p] \o noise))} :
           /\ concDrawn' = [concDrawn EXCEPT ![p] = @ \o noise]
           /\ rngPos' = Advance(rngPos, n)
           /\ concOut' = [concOut EXCEPT
                             ![p] = [who |-> "svc", status |-> r.status,
                                     rows |-> r.data]]
    /\ concPc' = [concPc EXCEPT ![p] = "done"]
    /\ UNCHANGED <<rngStream, callVars, svcVars, execVars, concIn>>

----------------------------------------------------------------------------
(* The curve normalizer, called directly *)

CleanTimes == {6 * Month, 10 * Month}
CleanSurvival == {(45 * Scale) \div 100, Scale \div 2, (8 * Scale) \div 10, Scale}

\* Digitized KM points of one (endpoint, arm), in any order, times repeated.
CleanInputs ==
    SeqsUpTo([time : CleanTimes, survival : CleanSurvival], MaxPoints + 1) \ {<<>>}

InitClean ==
    /\ callIn \in [km_points : CleanInputs, endpoint : {OS, PFS}]
    /\ callOut = NoCall
    /\ callPc = "call"

\* IPDBuilderAgent._clean_km_data(km_points)
CleanKM ==
    /\ callPc = "call"
    /\ callOut' = [who |-> "agent",
                   points |-> clean_km_data(callIn.km_points, callIn.endpoint)]
    /\ callPc' = "done"
    /\ UNCHANGED <<rngVars, callIn, svcVars, execVars, concVars>>

----------------------------------------------------------------------------
(* The aligners, as the entry points call them, then called once more *)

\* Published tables may report a time between two digitized KM times.
AlignARTimes == ARTimes \cup {3 * Month}
AlignARInputs ==
    {s \in SeqsUpTo([time : AlignARTimes, atRisk : 0..MaxN], MaxPoints) :
        /\ s # <<>>
        /\ \A i \in 1..(Len(s) - 1) : s[i].time < s[i + 1].time}

InitAlign ==
    /\ callIn \in [km_points : KMInputs \ {<<>>},
                   atrisk_points : AlignARInputs \cup {<<>>}]
    /\ callOut = NoCall
    /\ callPc = "call"

\* A's (time, survival) pairs as a KM series, A's (time, n_risk) pairs as
\* an at-risk table.
KMOf(aligned) ==
    [i \in 1..Len(aligned) |->
        [time |-> aligned[i].time, survival |-> aligned[i].survival]]
AtRiskOf(aligned) ==
    [i \in 1..Len(aligned) |->
        [time |-> aligned[i].time, atRisk |-> aligned[i].n_risk]]

\* IPDBuilder.reconstruct_ipd_guyot up to its call of _align_atrisk_data:
\* the KM frame sorted, converted and filtered, the table sorted (an empty
\* table is the empty frame).
AlignSvc ==
    /\ callPc = "call"
    /\ callOut' = [who |-> "svc", status |-> "aligned",
                   aligned |-> svc_align_atrisk_data(
                                   svc_prepare_km(callIn.km_points),
                                   SortByTime(callIn.atrisk_points)),
                   again |-> <<>>]
    /\ callPc' = "done"
    /\ UNCHANGED <<rngVars, callIn, svcVars, execVars, concVars>>

\* IPDBuilderAgent._reconstruct_ipd_guyot up to its call of
\* _align_atrisk_data: sorting the frame of an empty table raises KeyError
\* before the aligner is reached.
AlignAgent ==
    /\ callPc = "call"
    /\ callOut' = IF callIn.atrisk_points = <<>>
                  THEN [who |-> "agent", status |-> "raised", aligned |-> <<>>,
                        again |-> <<>>]
                  ELSE [who |-> "agent", status |-> "aligned",
                        aligned |-> agent_align_atrisk_data(
                                        SortByTime(callIn.km_points),
                                        SortByTime(callIn.atrisk_points)),
                        again |-> <<>>]
    /\ callPc' = "done"
    /\ UNCHANGED <<rngVars, callIn, svcVars, execVars, concVars>>

\* _align_atrisk_data called on its own output.
Realign ==
    /\ callPc = "done"
    /\ callOut.status = "aligned"
    /\ callOut' = [callOut EXCEPT
                      !.again = IF callOut.who = "svc"
                                THEN svc_align_atrisk_data(KMOf(callOut.aligned),
                                                           AtRiskOf(callOut.aligned))
                                ELSE agent_align_atrisk_data(KMOf(callOut.aligned),
                                                             AtRiskOf(callOut.aligned))]
    /\ callPc' = "again"
    /\ UNCHANGED <<rngVars, callIn, svcVars, execVars, concVars>>

----------------------------------------------------------------------------
(* The interval estimators, as the entry points reach them *)

EstTimes == {0, 6 * Month, 12 * Month}
EstSurvival == {Scale \div 4, Scale \div 2, (3 * Scale) \div 4, Scale}

\* Curves with one point per time, over every non-empty choice of times.
EstKMInputs ==
    UNION {
        { [i \in 1..Cardinality(T) |->
              [time |-> DistinctTimes(<<>>, T)[i],
               survival |-> f[DistinctTimes(<<>>, T)[i]]]]
          : f \in [T -> EstSurvival] }
        : T \in (SUBSET EstTimes) \ {{}} }
EstARInputs ==
    UNION {
        { [i \in 1..Cardinality(T) |->
              [time |-> DistinctTimes(<<>>, T)[i],
               atRisk |-> f[DistinctTimes(<<>>, T)[i]]]]
          : f \in [T -> 0..MaxN] }
        : T \in (SUBSET EstTimes) \ {{}} }

InitEstimate ==
    /\ callIn \in [km_points : EstKMInputs, atrisk_points : EstARInputs \cup {<<>>}]
    /\ callOut = NoCall
    /\ callPc = "call"

\* The counts of an aligned series as the service computes them: the
\* fractional ones (in 1/FracDen) and the integers emitted.
svc_counts(aligned) ==
    [who |-> "svc", status |-> "estimated", aligned |-> aligned,
     events_float |-> svc_events_float(aligned),
     censored_float |-> svc_censored_float(aligned),
     n_events |-> CarryRound(svc_events_float(aligned)),
     n_censored |-> CarryRound(svc_censored_float(aligned))]

\* The counts of an aligned series as the agent computes them; d and c of
\* the terminal point are the appended 0 and n_risk[-1].
agent_counts(aligned) ==
    [who |-> "agent", status |-> "estimated", aligned |-> aligned,
     events_float |->
        [i \in 1..Len(aligned) |->
            IF i = Len(aligned) THEN 0
            ELSE (agent_d(aligned, i)[1] * FracDen) \div agent_d(aligned, i)[2]],
     censored_float |->
        [i \in 1..Len(aligned) |->
            IF i = Len(aligned) THEN aligned[i].n_risk * FracDen
            ELSE (agent_c(aligned, i)[1] * FracDen) \div agent_c(aligned, i)[2]],
     n_events |-> [i \in 1..Len(aligned) |-> agent_n_events(aligned, i)],
     n_censored |-> [i \in 1..Len(aligned) |-> agent_n_censored(aligned, i)]]

\* IPDBuilder.reconstruct_ipd_guyot up to the end of its rounding loop.
EstimateSvc ==
    /\ callPc = "call"
    /\ callOut' = svc_counts(svc_align_atrisk_data(svc_prepare_km(callIn.km_points),
                                                   SortByTime(callIn.atrisk_points)))
    /\ callPc' = "done"
    /\ UNCHANGED <<rngVars, callIn, svcVars, execVars, concVars>>

\* IPDBuilderAgent._reconstruct_ipd_guyot up to the end of its counting
\* loop; without a table it has raised before.
EstimateAgent ==
    /\ callPc = "call"
    /\ callOut' = IF callIn.atrisk_points = <<>>
                  THEN [who |-> "agent", status |-> "raised", aligned |-> <<>>,
                        events_float |-> <<>>, censored_float |-> <<>>,
                        n_events |-> <<>>, n_censored |-> <<>>]
                  ELSE agent_counts(agent_align_atrisk_data(
                                        SortByTime(callIn.km_points),
                                        SortByTime(callIn.atrisk_points)))
    /\ callPc' = "done"
    /\ UNCHANGED <<rngVars, callIn, svcVars, execVars, concVars>>

----------------------------------------------------------------------------
(* The patient synthesizers, as the entry points reach them *)

InitSynth ==
    /\ callIn \in [km_points : KMInputs \ {<<>>}, atrisk_points : ARInputs,
                   arm : {"A"}]
    /\ callOut = NoCall
    /\ callPc = "call"

\* The records synthesized from the counts of an aligned series, before
\* the normalizer sees them.
svc_synthesized(counts, arm_name, draws) ==
    svc_patient_records(counts.aligned, counts.n_events, counts.n_censored,
                        arm_name, draws, 0)

\* IPDBuilder.reconstruct_ipd_guyot up to pd.DataFrame(patient_records).
SynthSvc ==
    /\ callPc = "call"
    /\ \E counts \in {svc_counts(svc_align_atrisk_data(
                                     svc_prepare_km(callIn.km_points),
                                     SortByTime(callIn.atrisk_points)))} :
       \E r \in {svc_synthesized(counts, callIn.arm, Window(rngStream, rngPos))} :
           /\ callOut' = [who |-> "svc", aligned |-> counts.aligned,
                          n_events |-> counts.n_events,
                          n_censored |-> counts.n_censored, rows |-> r.rows]
           /\ rngPos' = Advance(rngPos, r.used)
    /\ callPc' = "done"
    /\ UNCHANGED <<rngStream, callIn, svcVars, execVars, concVars>>

\* IPDBuilderAgent._reconstruct_ipd_guyot up to pd.DataFrame(patient_records).
SynthAgent ==
    /\ callPc = "call"
    /\ \E counts \in {agent_counts(agent_align_atrisk_data(
                                       SortByTime(callIn.km_points),
                                       SortByTime(callIn.atrisk_points)))} :
       \E r \in {agent_patient_records(counts.aligned, callIn.arm,
                                        Window(rngStream, rngPos), 0)} :
           /\ callOut' = [who |-> "agent", aligned |-> counts.aligned,
                          n_events |-> counts.n_events,
                          n_censored |-> counts.n_censored, rows |-> r.rows]
           /\ rngPos' = Advance(rngPos, r.used)
    /\ callPc' = "done"
    /\ UNCHANGED <<rngStream, callIn, svcVars, execVars, concVars>>

----------------------------------------------------------------------------
(* The service's counts in binary floating point *)

\* Python floats are binary, 53 significant bits, round to nearest, ties to
\* even.  The same arithmetic is carried out here with MantissaBits
\* significant bits; a float is <<m, e>>, the number m * 2^e, m odd or 0.
MantissaBits == 13
BinPoints == 4              \* KM points, and at-risk rows, of one curve

RECURSIVE Pow2(_)
Pow2(k) == IF k = 0 THEN 1 ELSE 2 * Pow2(k - 1)

RECURSIVE BitLen(_)
BitLen(n) == IF n = 0 THEN 0 ELSE 1 + BitLen(n \div 2)

RECURSIVE Canon(_, _)
Canon(m, e) ==
    IF m = 0 THEN <<0, 0>>
    ELSE IF m % 2 = 0 THEN Canon(m \div 2, e + 1) ELSE <<m, e>>

\* The float nearest to mag * 2^e (mag >= 0), ties to the even mantissa.
RoundMagnitude(mag, e, sh) ==
    IF sh <= 0 THEN <<mag, e>>
    ELSE IF mag % Pow2(sh) > Pow2(sh - 1)
            \/ (mag % Pow2(sh) = Pow2(sh - 1) /\ (mag \div Pow2(sh)) % 2 = 1)
         THEN <<mag \div Pow2(sh) + 1, e + sh>>
         ELSE <<mag \div Pow2(sh), e + sh>>

\* The float nearest to v * 2^e.
RoundBits(v, e) ==
    IF v >= 0
    THEN Canon(RoundMagnitude(v, e, BitLen(v) - MantissaBits)[1],
               RoundMagnitude(v, e, BitLen(v) - MantissaBits)[2])
    ELSE Canon(-RoundMagnitude(-v, e, BitLen(-v) - MantissaBits)[1],
               RoundMagnitude(-v, e, BitLen(-v) - MantissaBits)[2])

FromInt(n) == RoundBits(n, 0)

\* x + y and x - y, rounded once.
FAdd(x, y) ==
    RoundBits(x[1] * Pow2(x[2] - Min(x[2], y[2]))
              + y[1] * Pow2(y[2] - Min(x[2], y[2])),
              Min(x[2], y[2]))
FSub(x, y) == FAdd(x, <<-y[1], y[2]>>)

\* x * y, rounded once.
FMul(x, y) == RoundBits(x[1] * y[1], x[2] + y[2])

\* a / b for integers a >= 0, b > 0, scaled by 2^e: the quotient is taken to
\* MantissaBits + 2 bits and one more bit records a remainder.
RoundQuotient(a, b, e, k) ==
    RoundBits(2 * ((a * Pow2(k)) \div b)
              + (IF (a * Pow2(k)) % b = 0 THEN 0 ELSE 1),
              e - k - 1)

\* x / y for x >= 0, y > 0, rounded once.
FDiv(x, y) ==
    RoundQuotient(x[1], y[1], x[2] - y[2],
                  Max(0, MantissaBits + 2 + BitLen(y[1]) - BitLen(x[1])))

\* The float of a decimal literal s / Scale.
FromDecimal(s) == FDiv(<<s, 0>>, <<Scale, 0>>)

\* int(x) for x >= 0.
FInt(x) == IF x[2] >= 0 THEN x[1] * Pow2(x[2]) ELSE x[1] \div Pow2(-x[2])

\* max(0, x).
FMax0(x) == IF x[1] > 0 THEN x ELSE <<0, 0>>

\* d = nr_curr * (1 - s_next / s_curr) of interval i, else 0.
bin_d(aligned, i) ==
    IF aligned[i].survival > 0
    THEN FMul(FromInt(aligned[i].n_risk),
              FSub(FromInt(1), FDiv(FromDecimal(aligned[i + 1].survival),
                                    FromDecimal(aligned[i].survival))))
    ELSE <<0, 0>>

\* c = nr_curr - nr_next - d of interval i.
bin_c(aligned, i) ==
    FSub(FromInt(aligned[i].n_risk - aligned[i + 1].n_risk), bin_d(aligned, i))

bin_events_float(aligned) ==
    [i \in 1..Len(aligned) |->
        IF i < Len(aligned) THEN FMax0(bin_d(aligned, i)) ELSE <<0, 0>>]

bin_censored_float(aligned) ==
    [i \in 1..Len(aligned) |->
        IF i < Len(aligned) THEN FMax0(bin_c(aligned, i))
        ELSE FromInt(aligned[i].n_risk)]

RECURSIVE BinCarryLoop(_, _, _)
\* The rounding loop from step i on: acc += d; d_int = int(acc); acc -= d_int.
BinCarryLoop(floats, i, acc) ==
    IF i > Len(floats) THEN <<>>
    ELSE <<FInt(FAdd(acc, floats[i]))>>
         \o BinCarryLoop(floats, i + 1,
                         FSub(FAdd(acc, floats[i]),
                              FromInt(FInt(FAdd(acc, floats[i])))))

RECURSIVE BinCarryLeft(_, _, _)
\* The accumulator the loop leaves behind after each step from i on.
BinCarryLeft(floats, i, acc) ==
    IF i > Len(floats) THEN <<>>
    ELSE <<FSub(FAdd(acc, floats[i]), FromInt(FInt(FAdd(acc, floats[i]))))>>
         \o BinCarryLeft(floats, i + 1,
                         FSub(FAdd(acc, floats[i]),
                              FromInt(FInt(FAdd(acc, floats[i])))))

\* The exact sum of the first k floats (all >= 0), in units of 2^e, e being
\* no larger than any of their exponents.
RECURSIVE ScaledSum(_, _, _)
ScaledSum(floats, k, e) ==
    IF k = 0 THEN 0
    ELSE floats[k][1] * Pow2(floats[k][2] - e) + ScaledSum(floats, k - 1, e)
LeastExponent(floats) == SetMin({floats[i][2] : i \in DOMAIN floats} \cup {0})

\* Over every prefix: the integers emitted sum to the floor of the exact
\* sum of the fractional counts, and the accumulator is left in [0, 1).
CarryKeepsFloor(floats, ints, left) ==
    \A k \in 1..Len(floats) :
        /\ SumSeq(SubSeq(ints, 1, k))
               = ScaledSum(floats, k, LeastExponent(floats))
                     \div Pow2(-LeastExponent(floats))
        /\ left[k][1] >= 0
        /\ FInt(left[k]) = 0

\* The counts of an aligned series as the service's floats give them.
svc_counts_binary(aligned) ==
    [who |-> "svc", status |-> "estimated", aligned |-> aligned,
     target_n |-> svc_initial_n(aligned),
     events_float |-> bin_events_float(aligned),
     censored_float |-> bin_censored_float(aligned),
     n_events |-> BinCarryLoop(bin_events_float(aligned), 1, <<0, 0>>),
     n_censored |-> BinCarryLoop(bin_censored_float(aligned), 1, <<0, 0>>),
     event_carry |-> BinCarryLeft(bin_events_float(aligned), 1, <<0, 0>>),
     censor_carry |-> BinCarryLeft(bin_censored_float(aligned), 1, <<0, 0>>)]

\* Curves and tables on the same BinPoints times, six months apart, both
\* non-increasing; survival in tenths.
BinSurvival == {(2 * Scale) \div 10, (6 * Scale) \div 10, (9 * Scale) \div 10, Scale}
BinAtRisk == {0, 1, 4, 10}
BinKMInputs ==
    { [i \in 1..BinPoints |-> [time |-> (i - 1) * 6 * Month, survival |-> f[i]]]
      : f \in {g \in [1..BinPoints -> BinSurvival] :
                  \A i \in 1..(BinPoints - 1) : g[i] >= g[i + 1]} }
BinARInputs ==
    { [i \in 1..BinPoints |-> [time |-> (i - 1) * 6 * Month, atRisk |-> f[i]]]
      : f \in {g \in [1..BinPoints -> BinAtRisk] :
                  \A i \in 1..(BinPoints - 1) : g[i] >= g[i + 1]} }

InitBinary ==
    /\ callIn \in [km_points : BinKMInputs, atrisk_points : BinARInputs]
    /\ callOut = NoCall
    /\ callPc = "call"

\* IPDBuilder.reconstruct_ipd_guyot up to the end of its rounding loop, in
\* the arithmetic of the interpreter.
EstimateSvcBinary ==
    /\ callPc = "call"
    /\ callOut' = svc_counts_binary(
                      svc_align_atrisk_data(svc_prepare_km(callIn.km_points),
                                            SortByTime(callIn.atrisk_points)))
    /\ callPc' = "done"
    /\ UNCHANGED <<rngVars, callIn, svcVars, execVars, concVars>>

(* Specifications *)

NextSynth == SynthSvc \/ SynthAgent
StartSynth ==
    InitRng /\ InitSynth /\ InitSvcIdle /\ InitExecIdle /\ InitConcIdle
SpecSynth == StartSynth /\ [][NextSynth]_vars

NextEstimate == EstimateSvc \/ EstimateAgent
StartEstimate ==
    InitRngIdle /\ InitEstimate /\ InitSvcIdle /\ InitExecIdle /\ InitConcIdle
SpecEstimate == StartEstimate /\ [][NextEstimate]_vars

NextBinary == EstimateSvcBinary
StartBinary ==
    InitRngIdle /\ InitBinary /\ InitSvcIdle /\ InitExecIdle /\ InitConcIdle
SpecBinary == StartBinary /\ [][NextBinary]_vars

NextAlign == AlignSvc \/ AlignAgent \/ Realign
StartAlign ==
    InitRngIdle /\ InitAlign /\ InitSvcIdle /\ InitExecIdle /\ InitConcIdle
SpecAlign == StartAlign /\ [][NextAlign]_vars

NextClean == CleanKM
StartClean ==
    InitRngIdle /\ InitClean /\ InitSvcIdle /\ InitExecIdle /\ InitConcIdle
SpecClean == StartClean /\ [][NextClean]_vars

NextNorm == NormSvc \/ NormAgent
StartNorm ==
    InitRng /\ InitNorm /\ InitSvcIdle /\ InitExecIdle /\ InitConcIdle
SpecNorm == StartNorm /\ [][NextNorm]_vars

NextRecon == ReconSvc \/ ReconAgent
StartRecon ==
    InitRng /\ InitRecon /\ InitSvcIdle /\ InitExecIdle /\ InitConcIdle
SpecRecon == StartRecon /\ [][NextRecon]_vars

NextFidelity == ValidateReconstruction
StartFidelity ==
    InitRngIdle /\ InitFidelity /\ InitSvcIdle /\ InitExecIdle /\ InitConcIdle
SpecFidelity == StartFidelity /\ [][NextFidelity]_vars

NextIntegrity == ValidateIntegrity
StartIntegrity ==
    InitRngIdle /\ InitIntegrity /\ InitSvcIdle /\ InitExecIdle /\ InitConcIdle
SpecIntegrity == StartIntegrity /\ [][NextIntegrity]_vars

NextSvc == SvcGenerate \/ SvcResubmit
StartSvc ==
    InitRng /\ InitCallIdle /\ InitSvc /\ InitExecIdle /\ InitConcIdle
SpecSvc == StartSvc /\ [][NextSvc]_vars

NextExec == ExecStart \/ (\E key \in PairKeys : ExecPair(key)) \/ ExecFinish
StartExec ==
    InitRng /\ InitCallIdle /\ InitSvcIdle /\ InitExec /\ InitConcIdle
SpecExec == StartExec /\ [][NextExec]_vars

NextConc ==
    \E p \in Pipelines : ConcDraw(p) \/ ConcSynthesized(p) \/ ConcNormalize(p)
StartConc ==
    InitRng /\ InitCallIdle /\ InitSvcIdle /\ InitExecIdle /\ InitConc
SpecConc == StartConc /\ [][NextConc]_vars

----------------------------------------------------------------------------
(* Claims *)

(* C1: for every record list and every target_n >= 0 the population       *)
(* normalizer (of the service and of the agent) returns exactly target_n  *)
(* records, in the removal branch, in the duplication branch (an empty    *)
(* list included) and in the equal branch.                                *)
C1_ExactTarget ==
    callPc = "done" =>
        /\ ~callOut.raised
        /\ Len(callOut.df.rows) = callIn.target_n

(* C2: for every successful reconstruction the reported counts satisfy    *)
(* n_events + n_censored = n_patients = the number of records returned,   *)
(* whatever branch of the normalizer ran.                                 *)
C2_CountsAddUp ==
    (callPc = "done" /\ callOut.status = "success") =>
        /\ callOut.n_events + callOut.n_censored = callOut.n_patients
        /\ callOut.n_patients = Len(callOut.rows)

\* The service succeeded after its normalizer duplicated records, with
\* events and censored records both present.
C2_Witness ==
    /\ callPc = "done"
    /\ callOut.who = "svc"
    /\ callOut.status = "success"
    /\ callOut.synth_n < callOut.target_n
    /\ callOut.n_events > 0
    /\ callOut.n_censored > 0

(* C3: every record of a successful reconstruction has event in {0, 1}    *)
(* and time > 0, for every input (an aligned series starting at time 0    *)
(* with events or censored patients in its first interval included) and   *)
(* every value of the random draws.                                       *)
C3_PositiveTimes ==
    (callPc = "done" /\ callOut.status = "success") =>
        \A i \in DOMAIN callOut.rows :
            /\ callOut.rows[i].event \in {0, 1}
            /\ callOut.rows[i].time > 0

(* C4: the service returns success, and writes the Parquet file, only     *)
(* after the final records passed the fidelity check (re-fit MAE within   *)
(* the failure threshold) and the integrity check.                        *)
C4_SuccessIsValidated ==
    (svcPc = "responded" /\ (svcResp.code = 200 \/ svcResp.written)) =>
        /\ validate_reconstruction(DataFrame(svcResp.file), svcResp.result.aligned,
                                   svcReq.endpoint_type) # "raise"
        /\ ~validate_ipd_integrity_raises(DataFrame(svcResp.file))

(* C7: a reconstruction called with an empty KM point list ends in an     *)
(* error (an exception from the agent, success False from the service)    *)
(* before any alignment, estimation, synthesis or normalization ran: no   *)
(* stage ran, no draw was taken, no records are produced.                 *)
C7_EmptyCurveFails ==
    (callPc = "done" /\ callIn.km_points = <<>>) =>
        /\ callOut.status = (IF callOut.who = "svc" THEN "failed" ELSE "raised")
        /\ callOut.stages = <<>>
        /\ callOut.rows = <<>>
        /\ rngPos = 0

\* The service was called with no KM point and an at-risk table.
C7_Witness ==
    /\ callPc = "done"
    /\ callOut.who = "svc"
    /\ callIn.km_points = <<>>
    /\ callIn.atrisk_points # <<>>

(* C5: the outcome of the fidelity check depends only on the endpoint     *)
(* class and the MAE.  Thresholds are warning 0.10 / failure 0.30 when    *)
(* the endpoint name contains "PFS" and 0.05 / 0.15 otherwise; the check  *)
(* raises iff MAE > failure, warns iff warning < MAE <= failure, and is   *)
(* silent iff MAE <= warning.  Every MAE that fails for PFS fails for     *)
(* the other class.                                                       *)
C5_Thresholds ==
    (callPc = "done" /\ callIn.ipd_df.rows # <<>>) =>
        LET n == Len(callIn.km_df)
            err == AbsErrorSum(callIn.ipd_df.rows, callIn.km_df)
            pfs == callIn.endpoint \in {PFS, <<"P", "F", "S", "2">>}
            MAEAbove(hundredths) == err * 100 > hundredths * FitScale * n
        IN  /\ callOut.outcome =
                   IF MAEAbove(IF pfs THEN 30 ELSE 15) THEN "raise"
                   ELSE IF MAEAbove(IF pfs THEN 10 ELSE 5) THEN "warn"
                   ELSE "ok"
            /\ MAEAbove(30) => fidelity_outcome(OS, err, n) = "raise"

\* A non-PFS endpoint failed on an MAE that PFS lets through: the
\* looseness is strict.
C5_Witness ==
    /\ callPc = "done"
    /\ callIn.ipd_df.rows # <<>>
    /\ callIn.endpoint = <<"D", "F", "S">>
    /\ callOut.outcome = "raise"
    /\ validate_reconstruction(callIn.ipd_df, callIn.km_df, PFS) = "warn"

(* C6: the integrity check fails iff the record table is empty, or        *)
(* sum(event) + count(event = 0) differs from the number of records, or   *)
(* some event is outside {0, 1}, or some time is negative; otherwise it   *)
(* returns and leaves the records unchanged.                              *)
C6_IntegrityIff ==
    callPc = "done" =>
        LET rows == callIn.ipd_df.rows
            zeros == Cardinality({i \in DOMAIN rows : rows[i].event = 0})
            bad == \/ Len(rows) = 0
                   \/ SumSeq([i \in DOMAIN rows |-> rows[i].event]) + zeros # Len(rows)
                   \/ {rows[i].event : i \in DOMAIN rows} \ {0, 1} # {}
                   \/ \E i \in DOMAIN rows : rows[i].time < 0
        IN  /\ callOut.raised <=> bad
            /\ ~callOut.raised => callOut.ipd_df = callIn.ipd_df

\* The check failed on a negative time alone: events are 0 or 1.
C6_Witness ==
    /\ callPc = "done"
    /\ callOut.raised
    /\ \A i \in DOMAIN callIn.ipd_df.rows : callIn.ipd_df.rows[i].event \in {0, 1}
    /\ \E i \in DOMAIN callIn.ipd_df.rows : callIn.ipd_df.rows[i].time < 0

(* C8: in execute over several (endpoint, arm) pairs, a fatal error       *)
(* raised while reconstructing one pair fails only that pair: every other *)
(* pair of the run is still reconstructed, persisted and reported in      *)
(* ipd_results, whatever the iteration order.                             *)
C8_FailureIsLocal ==
    (/\ execPc = "raised"
     /\ execTrace[Len(execTrace)][2] \in {"fidelity", "integrity"}) =>
        \A key \in PairKeys \ {execTrace[Len(execTrace)][1]} :
            \* a pair that went through, or would if the loop went on
            (\/ key \in Begun
             \/ pair_reconstruction(key, execData[key],
                                    Window(rngStream, rngPos)).status = "returned") =>
                /\ \E i \in DOMAIN execFiles : execFiles[i].key = key
                /\ \E i \in DOMAIN execIpdFiles : execIpdFiles[i].key = key

(* C9: reconstruction is deterministic: two runs on identical KM points,  *)
(* at-risk table and arm produce identical record lists.                  *)
C9_Deterministic ==
    (svcPc = "responded" /\ svcRuns >= 2) =>
        svcResp.result.ipd = svcPrev.result.ipd

(* C10: when two reconstructions run concurrently, interleaved at the     *)
(* granularity of individual random draws, the records produced for each  *)
(* arm equal the records it produces when run alone on the same input.    *)
C10_Isolation ==
    \A p \in Pipelines :
        (concPc # <<>> /\ concPc[p] = "done") =>
            concOut[p].rows = AloneResult(p).data

(* C11: for every non-empty KM point list of one (endpoint, arm), of      *)
(* either endpoint class and with any number of points sharing a time,    *)
(* the output of _clean_km_data has strictly ascending, pairwise distinct *)
(* times and a non-increasing survival sequence.                          *)
C11_CleanIsMonotone ==
    (callPc = "done" /\ callIn.km_points # <<>>) =>
        \A i \in 1..(Len(callOut.points) - 1) :
            /\ callOut.points[i].time < callOut.points[i + 1].time
            /\ callOut.points[i].survival >= callOut.points[i + 1].survival

\* A PFS curve with points sharing a time and a later point of higher
\* survival than an earlier one was cleaned.
C11_Witness ==
    /\ callPc = "done"
    /\ callIn.endpoint = PFS
    /\ Len(callOut.points) = 2
    /\ Len(callIn.km_points) = 3
    /\ \E i, j \in DOMAIN callIn.km_points :
           /\ callIn.km_points[i].time < callIn.km_points[j].time
           /\ callIn.km_points[i].survival < callIn.km_points[j].survival

(* C15: for a non-PFS endpoint _clean_km_data returns one point per       *)
(* distinct input time, and the survival of the point at time t is the    *)
(* minimum of all input survival values at times <= t; in particular      *)
(* [(10, 0.5), (10, 0.45)] collapses to the single point (10, 0.45).      *)
C15_MinimumCollapse ==
    (callPc = "done" /\ callIn.endpoint = OS) =>
        LET in == callIn.km_points
            out == callOut.points
        IN  /\ {out[i].time : i \in DOMAIN out} = {in[i].time : i \in DOMAIN in}
            /\ Len(out) = Cardinality({in[i].time : i \in DOMAIN in})
            /\ \A i \in DOMAIN out :
                   /\ \E k \in DOMAIN in : /\ in[k].time <= out[i].time
                                           /\ in[k].survival = out[i].survival
                   /\ \A k \in DOMAIN in :
                          in[k].time <= out[i].time => out[i].survival <= in[k].survival

\* The two points (10, 0.5), (10, 0.45) of an OS curve became (10, 0.45).
C15_Witness ==
    /\ callPc = "done"
    /\ callIn.endpoint = OS
    /\ callIn.km_points = <<[time |-> 10 * Month, survival |-> Scale \div 2],
                            [time |-> 10 * Month, survival |-> (45 * Scale) \div 100]>>
    /\ callOut.points = <<[time |-> 10 * Month, survival |-> (45 * Scale) \div 100]>>

(* C12: for every KM series and every at-risk table reaching the aligner  *)
(* through a reconstruction entry point (table empty, table non-monotone, *)
(* KM survival not non-increasing) the n_risk sequence of the aligned     *)
(* series is non-increasing in time, for both aligners.                   *)
C12_NRiskNonIncreasing ==
    (callPc = "done" /\ callOut.status = "aligned") =>
        \A i \in 1..(Len(callOut.aligned) - 1) :
            callOut.aligned[i].n_risk >= callOut.aligned[i + 1].n_risk

(* C13: alignment is idempotent: the aligner called with the (time,       *)
(* survival) pairs of its output A as the KM series and the (time,        *)
(* n_risk) pairs of A as the at-risk table returns A unchanged, for both  *)
(* aligners and for every first-point survival value.                     *)
C13_AlignIdempotent ==
    callPc = "again" => callOut.again = callOut.aligned

(* C17: for every consecutive pair of aligned points the fractional event *)
(* count is d_i = N_i * (1 - S_{i+1}/S_i) if S_i > 0 and S_{i+1} < S_i    *)
(* and 0 otherwise, and the fractional censored count is                  *)
(* max(0, N_i - N_{i+1} - d_i) with that same d_i; an interval with       *)
(* S_{i+1} >= S_i contributes exactly max(0, N_i - N_{i+1}) censored.     *)
C17_GuyotRecurrence ==
    (callPc = "done" /\ callOut.status = "estimated") =>
        \A i \in 1..(Len(callOut.aligned) - 1) :
            LET S == callOut.aligned[i].survival
                Snext == callOut.aligned[i + 1].survival
                N == callOut.aligned[i].n_risk
                Nnext == callOut.aligned[i + 1].n_risk
                d == IF S > 0 /\ Snext < S
                     THEN (N * (S - Snext) * FracDen) \div S
                     ELSE 0
            IN  /\ callOut.events_float[i] = d
                /\ callOut.censored_float[i]
                       = (IF (N - Nnext) * FracDen - d > 0
                          THEN (N - Nnext) * FracDen - d ELSE 0)

(* C18: the carry-forward rounding of the service preserves totals: after *)
(* every prefix of intervals the emitted integer events sum to the floor  *)
(* of the fractional events of that prefix (likewise for censored), the   *)
(* carried remainder stays in [0, 1), and the total emitted differs from  *)
(* the total fractional count by less than 1.  The fractional counts are  *)
(* the floats of n_events_float and n_censored_float, summed exactly.     *)
C18_CarryPreservesTotals ==
    (callPc = "done" /\ callOut.who = "svc") =>
        /\ CarryKeepsFloor(callOut.events_float, callOut.n_events,
                           callOut.event_carry)
        /\ CarryKeepsFloor(callOut.censored_float, callOut.n_censored,
                           callOut.censor_carry)

(* C19: the agent does not round each interval independently: for every   *)
(* aligned series the total of the emitted integer event counts differs   *)
(* from the total of the fractional event counts d_i by less than 1.      *)
C19_AgentTotalsClose ==
    (callPc = "done" /\ callOut.who = "agent" /\ callOut.status = "estimated") =>
        LET gap == SumSeq(callOut.n_events) * FracDen - SumSeq(callOut.events_float)
        IN  -FracDen < gap /\ gap < FracDen

(* C16: for every record list with E events among N records and every     *)
(* target_n with 0 < target_n < N, the removal branch of the normalizer   *)
(* removes exactly N - target_n records and the event ratio of the result *)
(* differs from E/N by at most 0.01 (also for small target_n).            *)
C16_RemovalKeepsRatio ==
    (/\ callPc = "done"
     /\ 0 < callIn.target_n
     /\ callIn.target_n < Len(callIn.df.rows)) =>
        LET N == Len(callIn.df.rows)
            E == Len(Events(callIn.df.rows))
            kept == Len(callOut.df.rows)
            keptE == Len(Events(callOut.df.rows))
            gap == keptE * N - E * kept
        IN  /\ ~callOut.raised
            /\ N - kept = N - callIn.target_n
            /\ -(N * kept) <= 100 * gap /\ 100 * gap <= N * kept

(* C20: the terminal point of the aligned series yields zero event        *)
(* records and exactly n_risk(last) censored records, each at the last    *)
(* time of the aligned series; before normalization no synthesized record *)
(* has a time greater than that last time and every event record has a    *)
(* time strictly smaller than it.                                         *)
C20_TerminalPoint ==
    callPc = "done" =>
        LET n == Len(callOut.aligned)
            last == callOut.aligned[n].time
            nlast == callOut.aligned[n].n_risk
            rows == callOut.rows
        IN  /\ callOut.n_events[n] = 0
            /\ callOut.n_censored[n] = nlast
            /\ Len(rows) = SumSeq(callOut.n_events) + SumSeq(callOut.n_censored)
            /\ \A i \in (Len(rows) - nlast + 1)..Len(rows) :
                   rows[i].event = 0 /\ rows[i].time = last
            /\ \A i \in DOMAIN rows :
                   /\ rows[i].time <= last
                   /\ rows[i].event = 1 => rows[i].time < last

(* C14: for KM points [(0, 1.0), (6, 0.8), (12, 0.6)] and at-risk table   *)
(* [(0, 100), (6, 70), (12, 40)] reconstruction derives initial_n = 100,  *)
(* fractional events 20 on [0, 6) and 17.5 on [6, 12), 40 terminal        *)
(* censored, and returns exactly 100 records of which 37 or 38 are events *)
(* and 62 or 63 are censored, for every value of the random draws.        *)
C14_PublishedCurve ==
    (/\ callPc = "done"
     /\ callIn.km_points = PublishedKM
     /\ callIn.atrisk_points = PublishedAtRisk) =>
        LET counts == IF callOut.who = "svc" THEN svc_counts(callOut.aligned)
                      ELSE agent_counts(callOut.aligned)
        IN  /\ callOut.target_n = 100
            /\ counts.events_float = <<20 * FracDen, (35 * FracDen) \div 2, 0>>
            /\ counts.censored_float[3] = 40 * FracDen
            /\ callOut.status = "success"
            /\ Len(callOut.rows) = 100
            /\ callOut.n_events \in {37, 38}
            /\ callOut.n_censored \in {62, 63}
            /\ callOut.n_events = Len(Events(callOut.rows))
            /\ callOut.n_censored = Len(Censored(callOut.rows))

\* The service reconstructed the published curve: 99 records synthesized,
\* one duplicated by the normalizer.
C14_Witness ==
    /\ callPc = "done"
    /\ callIn.km_points = PublishedKM
    /\ callIn.atrisk_points = PublishedAtRisk
    /\ callOut.who = "svc"
    /\ callOut.status = "success"
    /\ callOut.synth_n = 99
    /\ Len(callOut.rows) = 100

(* C21: every record synthesized for a non-terminal interval i, event or  *)
(* censored, has a time strictly inside (t_i, t_{i+1}), for every         *)
(* positive interval length and every value of the random draws: no       *)
(* censored record lies exactly at t_i, no event record at or beyond      *)
(* t_{i+1}.                                                               *)
C21_StrictlyInside ==
    callPc = "done" =>
        \A i \in 1..(Len(callOut.aligned) - 1) :
            callOut.aligned[i].time < callOut.aligned[i + 1].time =>
                \A k \in 1..(callOut.n_events[i] + callOut.n_censored[i]) :
                    LET row == callOut.rows[PrefixSum(callOut.n_events, i)
                                            + PrefixSum(callOut.n_censored, i) + k]
                    IN  /\ callOut.aligned[i].time < row.time
                        /\ row.time < callOut.aligned[i + 1].time

(* C22: patient ids are unique within the arm at every stage: the         *)
(* synthesizer assigns ids 0..n-1 without repetition, and after           *)
(* normalization (removal, or duplication with ids reassigned from        *)
(* current_n on) no two records of the result share a patient_id.         *)
C22_UniqueIds ==
    (callPc = "done" /\ callOut.status = "success") =>
        LET synth == IF callOut.who = "svc"
                     THEN svc_synthesized(svc_counts(callOut.aligned), callIn.arm,
                                          Window(rngStream, 0)).rows
                     ELSE agent_patient_records(callOut.aligned, callIn.arm,
                                                Window(rngStream, 0), 0).rows
        IN  /\ Len(synth) = callOut.synth_n
            /\ \A i \in DOMAIN synth : synth[i].patient_id = i - 1
            /\ \A i, j \in DOMAIN callOut.rows :
                   i # j => callOut.rows[i].patient_id # callOut.rows[j].patient_id

\* A reconstruction whose normalizer appended duplicates to two or more
\* synthesized records.
C22_Witness ==
    /\ callPc = "done"
    /\ callOut.status = "success"
    /\ callOut.synth_n >= 2
    /\ Len(callOut.rows) > callOut.synth_n

(* C23: the population normalizer only removes or appends records: every  *)
(* output record carrying the patient_id of an input record has exactly   *)
(* that record's time, event and arm; records appended in the duplication *)
(* branch copy the event and arm of an existing record, get a fresh id    *)
(* and a time >= 0.001; and when current_n = target_n the output is the   *)
(* input unchanged (same records, same order).                            *)
C23_RemovesOrAppends ==
    (callPc = "done" /\ ~callOut.raised) =>
        LET in == callIn.df.rows
            out == callOut.df.rows
            ids == {in[i].patient_id : i \in DOMAIN in}
        IN  /\ \A k \in DOMAIN out :
                   IF out[k].patient_id \in ids
                   THEN \E i \in DOMAIN in : in[i] = out[k]
                   ELSE /\ Len(in) < callIn.target_n
                        /\ out[k].time >= MinTime
                        /\ \E i \in DOMAIN in : /\ in[i].event = out[k].event
                                                /\ in[i].arm = out[k].arm
            /\ Len(in) = callIn.target_n => callOut.df = callIn.df

\* The duplicate of a record at time 0 was appended: its jittered time is
\* held at 0.001, and the record it copies is still in the output.
C23_Witness ==
    /\ callPc = "done"
    /\ ~callOut.raised
    /\ Len(callOut.df.rows) > Len(callIn.df.rows)
    /\ \E k \in DOMAIN callOut.df.rows :
           /\ callOut.df.rows[k].patient_id >= Len(callIn.df.rows)
           /\ callOut.df.rows[k].time = MinTime
    /\ \E k \in DOMAIN callOut.df.rows : callOut.df.rows[k] = callIn.df.rows[1]

(* C24: whenever the supplied at-risk table has an entry at t = 0,        *)
(* initial_n (the target_n of the normalizer) equals that entry's value,  *)
(* whether or not the KM series has a point at t = 0 and whatever the     *)
(* survival at the first point; only when the table has no t = 0 entry is *)
(* initial_n backed out as n_risk / survival at the earliest aligned      *)
(* point.                                                                 *)
C24_InitialNFromTable ==
    (callPc = "done" /\ callOut.aligned # <<>>) =>
        LET table == callIn.atrisk_points
            first == callOut.aligned[1]
        IN  IF \E i \in DOMAIN table : table[i].time = 0
            THEN \A i \in DOMAIN table :
                     table[i].time = 0 => callOut.target_n = table[i].atRisk
            ELSE callOut.target_n
                     = (IF first.survival > 0
                        THEN (first.n_risk * Scale) \div first.survival
                        ELSE first.n_risk)

C26_ClipBound ==
    (/\ callPc = "done"
     /\ callOut.who = "svc"
     /\ callIn.atrisk_points # <<>>) =>
        \A i \in DOMAIN callOut.aligned :
            callOut.aligned[i].n_risk * 10 * Scale
                <= callOut.aligned[i].survival * callOut.aligned[1].n_risk * 12

(* C27: in execute the stages of one (endpoint, arm) pair run in the      *)
(* fixed order clean, align, estimate, synthesize, normalize, fidelity    *)
(* check, integrity check, Parquet write, artifact registration: the      *)
(* file of a pair is written and its artifact registered only after both  *)
(* checks returned without raising on the normalized records, so no file  *)
(* or artifact exists for a pair whose validation failed.                 *)
C27_StageOrder ==
    \A key \in PairKeys :
        LET order == <<"clean", "align", "estimate", "synthesize", "normalize",
                       "fidelity", "integrity", "write", "artifact">>
            ran == SelectSeq(execTrace, LAMBDA e : e[1] = key)
            files == SelectSeq(execFiles, LAMBDA f : f.key = key)
            aligned == agent_align_atrisk_data(
                           SortByTime(clean_km_data(execData[key].km_points, key[1])),
                           SortByTime(execData[key].atrisk_points))
        IN  /\ Len(ran) <= Len(order)
            /\ \A i \in DOMAIN ran : ran[i][2] = order[i]
            /\ Len(files) = (IF Len(ran) >= 8 THEN 1 ELSE 0)
            /\ (\E i \in DOMAIN execArtifacts : execArtifacts[i] = key)
                   <=> Len(ran) = Len(order)
            /\ \A i \in DOMAIN files :
                   /\ ~validate_ipd_integrity_raises(DataFrame(files[i].rows))
                   /\ validate_reconstruction(DataFrame(files[i].rows), aligned,
                                              key[1]) # "raise"

\* The fidelity check of the second pair raised: the first pair's file is
\* written and registered, the second pair has neither.
C27_Witness ==
    /\ execPc = "raised"
    /\ Len(execFiles) = 1
    /\ Len(execArtifacts) = 1
    /\ execTrace[Len(execTrace)][2] = "fidelity"
    /\ execTrace[Len(execTrace)][1] # execFiles[1].key

(* C28: if execute raises while processing the k-th (endpoint, arm) pair, *)
(* the run state's ipd_files is left unchanged (update_state is never     *)
(* reached) and the run status stays IPD_RECONSTRUCTION, while the        *)
(* Parquet files and artifacts of the k-1 pairs completed earlier remain  *)
(* written and registered; ipd_files is updated exactly once, after all   *)
(* pairs succeeded.                                                       *)
C28_RaiseLeavesState ==
    LET completed == {key \in PairKeys :
                         \E i \in DOMAIN execTrace : execTrace[i] = <<key, "artifact">>}
        keysOf(files) == {files[i].key : i \in DOMAIN files}
    IN  /\ execPc = "raised" =>
               /\ execIpdFiles = <<>>
               /\ execStatus = "IPD_RECONSTRUCTION"
               /\ Cardinality(Begun) = Cardinality(completed) + 1
               /\ keysOf(execFiles) = completed
               /\ Len(execFiles) = Cardinality(completed)
               /\ {execArtifacts[i] : i \in DOMAIN execArtifacts} = completed
               /\ Len(execArtifacts) = Cardinality(completed)
        /\ execPc \in {"start", "loop"} => execIpdFiles = <<>>
        /\ execPc = "returned" =>
               /\ completed = PairKeys
               /\ keysOf(execIpdFiles) = PairKeys
               /\ Len(execIpdFiles) = Cardinality(PairKeys)

\* The third pair raised after two pairs went through: their files and
\* artifacts are there, ipd_files is still empty.
C28_Witness ==
    /\ execPc = "raised"
    /\ Len(execFiles) = 2
    /\ Len(execArtifacts) = 2
    /\ Len(execResults) = 2
    /\ execIpdFiles = <<>>

(* C29: the counts of a reconstruction are a deterministic function of    *)
(* its input although the times depend on unseeded random draws: two runs *)
(* of either reconstruction on identical input return the same            *)
(* n_patients, n_events and n_censored, in the removal branch and in the  *)
(* duplication branch of the normalizer.                                  *)
C29_CountsDeterministic ==
    (callPc = "done" /\ callOut.status = "success") =>
        \A stream \in Streams :
            LET svc == reconstruct_ipd_guyot(callIn.km_points, callIn.atrisk_points,
                                             callIn.arm, Window(stream, 0), 0)
                agent == agent_reconstruct_ipd_guyot(callIn.km_points,
                                                     callIn.atrisk_points,
                                                     callIn.endpoint, callIn.arm,
                                                     Window(stream, 0), 0)
            IN  IF callOut.who = "svc"
                THEN svc.status = "success" =>
                         /\ svc.summary.n_patients = callOut.n_patients
                         /\ svc.summary.n_events = callOut.n_events
                         /\ svc.summary.n_censored = callOut.n_censored
                ELSE agent.status = "returned" =>
                         FrameCounts(agent.df.rows)
                             = [n_patients |-> callOut.n_patients,
                                n_events |-> callOut.n_events,
                                n_censored |-> callOut.n_censored]

\* A reconstruction went through the duplication branch on records of
\* both kinds, with draws other than the middle ones.
C29_Witness ==
    /\ callPc = "done"
    /\ callOut.status = "success"
    /\ Len(callOut.rows) > callOut.synth_n
    /\ callOut.n_events > 0
    /\ callOut.n_censored > 0
    /\ rngStream[0] # rngStream[1]

(* C30: with integer aligned at-risk counts the service's rounding loops   *)
(* emit, over all grid points, at least n_risk(first aligned point) - 1    *)
(* records; so when the aligned grid contains t=0, the records synthesized *)
(* fall short of the target population by at most one and the normalizer's *)
(* duplication branch adds at most one record.                             *)
C30_AtMostOneShort ==
    callPc = "done" =>
        /\ SumSeq(callOut.n_events) + SumSeq(callOut.n_censored)
               >= callOut.aligned[1].n_risk - 1
        /\ (\E i \in DOMAIN callOut.aligned : callOut.aligned[i].time = 0)
               => callOut.target_n
                      - (SumSeq(callOut.n_events) + SumSeq(callOut.n_censored))
                  <= 1
====
